---- MODULE Spec2Model ----
(***************************************************************************)
(* MetaLoki 2.0 (populous/Loki2.0): the ORIGAMI composite tree, its        *)
(* traversal cursors (tree_iterator, origami_iterator) and its visitors    *)
(* (accumulate_visitor, tree_visitor).                                     *)
(*                                                                         *)
(* A composite tree is a table of nodes.  Node 0 is the root composite;    *)
(* a pointer to a child variant is the id of the node, so two leaves       *)
(* holding the same value are still different nodes.                       *)
(* children[x] is the std::vector children_ of node x, in push_back order. *)
(***************************************************************************)
EXTENDS Integers, Sequences, FiniteSets, TLC

\* ---------------------------------------------------------------- bounds
\* Largest number of nodes below the root of a generated tree.
MaxNodes == 4
\* Largest number of visit() calls a client makes on an accumulate_visitor
\* between two resets.
MaxVisits == 2
\* Largest number of visit() calls a client makes on a tree_visitor between
\* two clear_results().
MaxTreeVisits == 1
\* Largest number of calls a variant_visitor makes to registered visitor
\* functions.
MaxHandlerCalls == 2
\* Largest number of add / add_copy / emplace calls a client makes.
MaxAdds == 3
\* Largest number of set_name calls and leaf value assignments a client makes.
MaxChanges == 1
\* Largest number of entries a client registers with a subject, and of
\* connections it makes to a signal.
MaxObservers == 2
\* Largest number of execute_command calls a client makes.
MaxCommands == 3
\* Largest number of chars the document and its clipboard hold together when
\* a command is executed or redone.
MaxTextLen == 4
MaxQueued == 2
MaxTransitions == 3
MaxComponents == 3
MaxActions == 2

\* nullptr
NULL == -1

\* The int values a generated leaf<int> may hold.
Values == {10, 20}

VARIABLES
    \* composite / leaf (composite.hpp)
    children,            \* node -> sequence of child nodes (composite::children_)
    kind,                \* node -> "leaf" | "composite"
    value,               \* node -> leaf::value_ (0 for a composite)
    \* tree_iterator (tree_iterator.hpp)
    root_, order_, dfs_stack_, bfs_queue_, current_,
    \* what the caller of the tree_iterator has observed
    yielded,             \* nodes returned by next() since construction / the last reset()
    op,                  \* the last member function called
    ret,                 \* what it gave the caller (has_next: 0/1, next and operator*:
                         \* the node, for_each: get_result() of the visitor it drove),
                         \* NULL if nothing
    err,                 \* the exception it threw, "" if none
    pre_len,             \* Len(yielded) when it was called
    \* origami_iterator (iterator.hpp)
    current_ptr_, traversal_stack_,
    \* accumulate_visitor (visitor.hpp)
    accumulated_value_,
    applied,             \* nodes passed to visit() since construction / the last reset()
    \* tree_visitor (advanced_visitor.hpp)
    mode_,
    results_,            \* an entry is the leaf whose process_leaf result it holds
    visited,             \* nodes visit() was entered with, calls made by the visitor
                         \* itself included, since construction / clear_results()
    tv_applied,          \* nodes the client passed to visit() since then
    \* what the caller of the other classes has observed, with op, ret and err
    arg,                 \* the argument(s) of the last member function called
    \* variant_visitor (modern_visitor.hpp)
    visitors_,           \* element type -> the wrapper registered for it
    vv_calls,            \* the calls made to registered visitor functions:
                         \* <<visitor function, type of the element passed>>
    \* composite built and cloned by a client (composite.hpp)
    name_,               \* node -> composite::name_ ("" for a leaf)
    clone_,              \* the composite clone() returned, NULL before the call
    added,               \* the add / add_copy / emplace calls made:
                         \* <<composite, child passed>>
    changes,             \* the number of set_name calls and leaf value
                         \* assignments made
    \* subject and auto_observer (observer.hpp)
    client_,             \* what the client constructed: "subject" or "signal"
    enable_validation,   \* validation_policy::enable_validation (NDEBUG not defined)
    observers_,
    notification_in_progress_,
    notifying,           \* notify_all is running
    observers_snapshot,  \* the local of the running notify_all
    snapshot_pos,        \* how many of its elements the loop has gone through
    notified,            \* the observers whose notify() the running / last
                         \* notify_all has called
    alive,               \* the auto_observer objects constructed and not destroyed
    exceptions_alive,    \* the exception objects that exist once the last
                         \* auto_observer constructor / destructor has returned
    \* signal (signal_slot.hpp)
    slots_,              \* <<connection_id, slot>>
    next_id_,
    slots_snapshot,      \* the local of the running emit
    emit_pos,            \* how many of its elements the loop has gone through
    emitting,            \* an emit is running
    emitted,             \* the connections whose slot the running / last emit
                         \* has called
    \* the receivers of the commands (document_commands.hpp,
    \* lightbulb_commands.hpp, command_examples.cpp)
    receiver_,           \* what the client's commands act on
    content_, clipboard_,                          \* document
    brightness_, red_, green_, blue_, is_on_,      \* lightbulb
    counter,                                       \* int counter
    \* command_invoker (command.hpp)
    undo_stack_, redo_stack_,
    executed,            \* the number of execute_command calls made
    trail,               \* what the client saw of the receiver before each
                         \* of the commands on top of undo_stack_ was executed or
                         \* redone, as far back as every change of it is on
                         \* the stack
    command_queue_,      \* std::queue: push is Append, front is the head
    draining,            \* execute_queued_commands is running
    queued,              \* the number of queue_command calls of the client
    enqueued,            \* the commands given to queue_command and not
                         \* executed by an earlier execute_queued_commands,
                         \* in call order
    drained,             \* the commands the last execute_queued_commands
                         \* executed, in order
    \* node_counter_visitor (advanced_visitor.hpp)
    count_,
    \* complex_origami_builder (complex_builder.hpp)
    components_,         \* the component_configs, in the order of the calls
    post_build_actions_, \* the actions, in the order of their registration
    built,               \* the composite the last build() returned, or NULL
    post_build_log,      \* the actions the last build() ran, in order, each
                         \* with the number of children it found
    configured,          \* the components the client configured, in call order
    registered,          \* the actions the client registered, in call order
    \* simple_state (simple_state.hpp)
    current_state_,      \* std::optional: NULL when it has no value
    state_names_, state_history_,
    enter_callbacks_,    \* the states that have an enter callback
    exit_callbacks_,     \* the states that have an exit callback
    transition_callback_,\* the transition callback has a value
    state_visit_count_, total_time_in_state_,
    callbacks,           \* the callbacks the last call invoked, in order
    transitions          \* the states transition_to was called with, in order

treeVars == <<children, kind, value>>
cursorVars == <<root_, order_, dfs_stack_, bfs_queue_, current_>>
iterObs == <<yielded, op, ret, err, pre_len>>
origamiVars == <<current_ptr_, traversal_stack_>>
accVars == <<accumulated_value_, applied>>
tvVars == <<mode_, results_, visited, tv_applied>>
vvVars == <<visitors_, vv_calls>>
compVars == <<name_, clone_, added, changes>>
subjectVars == <<enable_validation, observers_, notification_in_progress_, notifying,
                 observers_snapshot, snapshot_pos, notified, alive, exceptions_alive>>
signalVars == <<slots_, next_id_, slots_snapshot, emit_pos, emitting, emitted>>
obsVars == <<client_, subjectVars, signalVars>>
receiverVars == <<content_, clipboard_, brightness_, red_, green_, blue_, is_on_, counter>>
invokerVars == <<undo_stack_, redo_stack_>>
queueVars == <<command_queue_, draining, queued, enqueued, drained>>
cmdVars == <<receiver_, receiverVars, invokerVars, executed, trail, queueVars>>
builderVars == <<components_, post_build_actions_, built, post_build_log,
                 configured, registered>>
stateVars == <<current_state_, state_names_, state_history_, enter_callbacks_,
               exit_callbacks_, transition_callback_, state_visit_count_,
               total_time_in_state_, callbacks, transitions>>
laterVars == <<arg, vvVars, compVars, obsVars, cmdVars, count_, builderVars, stateVars>>
vars == <<treeVars, cursorVars, iterObs, origamiVars, accVars, tvVars, laterVars>>

\* ------------------------------------------------------------ sequences
Range(s) == {s[i] : i \in 1..Len(s)}

RECURSIVE Reverse(_)
Reverse(s) == IF s = <<>> THEN <<>> ELSE Append(Reverse(Tail(s)), Head(s))

NoDup(s) == \A i, j \in 1..Len(s) : s[i] = s[j] => i = j

\* position of x in s (0 when absent)
Pos(s, x) == IF x \in Range(s) THEN CHOOSE i \in 1..Len(s) : s[i] = x ELSE 0

RECURSIVE SortedSeq(_)
SortedSeq(S) ==
    IF S = {} THEN <<>>
    ELSE LET m == CHOOSE x \in S : \A y \in S : x <= y
         IN  <<m>> \o SortedSeq(S \ {m})

\* ---------------------------------------------------------------- trees
\* The trees the clients build with composite::add / add_copy / emplace:
\* the parent of a node is a composite, and push_back keeps the children of
\* a node in the order they were added.  The nodes are numbered level by
\* level, left to right (t.p is the parent of each node): every ordered
\* tree has exactly one such numbering, so each tree is generated once.
Nodes == DOMAIN children

TreeShapes(n) ==
    { t \in [k : [0..n -> {"leaf", "composite"}], p : [1..n -> 0..n] ] :
        /\ t.k[0] = "composite"
        /\ \A i \in 1..n : t.p[i] < i /\ t.k[t.p[i]] = "composite"
        /\ \A i \in 1..(n - 1) : t.p[i] <= t.p[i + 1] }

TreeInit ==
    \E n \in 0..MaxNodes :
      \E t \in TreeShapes(n) :
        \E v \in [0..n -> Values \cup {0}] :
          /\ \A i \in 0..n : (v[i] = 0) <=> (t.k[i] = "composite")
          /\ kind = t.k
          /\ value = v
          /\ children = [x \in 0..n |-> SortedSeq({i \in 1..n : t.p[i] = x})]

RECURSIVE SumValues(_)
SumValues(S) ==
    IF S = {} THEN 0
    ELSE LET x == CHOOSE y \in S : TRUE
         IN  value[x] + SumValues(S \ {x})

\* ------------------------------------------------- accumulate_visitor
\* accumulate_visitor::visit, both overloads: a leaf adds its value, a
\* composite visits each of its children in turn (accept_visitor(v) is
\* v.visit(*this)).  acc is accumulated_value_.
RECURSIVE AccVisit(_, _), AccVisitChildren(_, _)
AccVisitChildren(acc, cs) ==
    IF cs = <<>> THEN acc
    ELSE AccVisitChildren(AccVisit(acc, Head(cs)), Tail(cs))

AccVisit_leaf_children_only(acc, x) ==
    IF kind[x] = "leaf" THEN acc + value[x]
    ELSE SumValues({y \in Range(children[x]) : kind[y] = "leaf"}) + acc

AccVisit(acc, x) ==
    IF kind[x] = "leaf" THEN acc + value[x]
    ELSE AccVisitChildren(acc, children[x])

AccInit ==
    /\ accumulated_value_ = 0
    /\ applied = <<>>

\* result_type visit(const leaf<ValueType>&) and
\* result_type visit(const composite<ComponentTypes...>&)
Visit ==
    \E x \in Nodes :
        /\ Len(applied) < MaxVisits
        /\ op' = "visit"
        /\ accumulated_value_' = AccVisit(accumulated_value_, x)
        /\ applied' = Append(applied, x)
        /\ ret' = accumulated_value_'

GetResult_consuming ==
    /\ op' = "get_result"
    /\ ret' = accumulated_value_
    /\ accumulated_value_' = 0
    /\ applied' = <<>>

\* ValueType get_result() const
GetResult ==
    /\ op' = "get_result"
    /\ ret' = accumulated_value_
    /\ UNCHANGED accVars

\* void reset()
AccReset ==
    /\ op' = "reset"
    /\ accumulated_value_' = 0
    /\ applied' = <<>>
    /\ ret' = NULL

\* -------------------------------------------------------- tree_visitor
Modes == {"depth_first_preorder", "depth_first_postorder", "breadth_first", "custom"}

\* The visitor as a value: st.res is results_, st.vis is visited.
RECURSIVE tv_visit(_, _, _), visit_depth_first_preorder(_, _, _),
          visit_breadth_first(_, _, _)

\* tree_visitor::visit_depth_first_preorder: cs is what is left of
\* composite_element.children()
visit_depth_first_preorder(st, cs, mode) ==
    IF cs = <<>> THEN st
    ELSE visit_depth_first_preorder(tv_visit(st, Head(cs), mode), Tail(cs), mode)

\* tree_visitor::visit_depth_first_postorder
visit_depth_first_postorder(st, cs, mode) == visit_depth_first_preorder(st, cs, mode)

\* tree_visitor::visit_custom
visit_custom(st, cs, mode) == visit_depth_first_preorder(st, cs, mode)

\* tree_visitor::visit_breadth_first: queue is visit_queue
visit_breadth_first(st, queue, mode) ==
    IF queue = <<>> THEN st
    ELSE LET current == Head(queue)
         IN  visit_breadth_first(
                 tv_visit(st, current, mode),
                 IF kind[current] = "composite"
                 THEN Tail(queue) \o children[current] ELSE Tail(queue),
                 mode)

\* tree_visitor::process_composite
process_composite(st, x, mode) ==
    CASE mode = "depth_first_preorder" -> visit_depth_first_preorder(st, children[x], mode)
      [] mode = "depth_first_postorder" -> visit_depth_first_postorder(st, children[x], mode)
      [] mode = "breadth_first" -> visit_breadth_first(st, children[x], mode)
      [] mode = "custom" -> visit_custom(st, children[x], mode)

\* tree_visitor::visit, both overloads (no hooks set)
tv_visit(st, x, mode) ==
    IF kind[x] = "leaf"
    THEN [res |-> Append(st.res, x), vis |-> Append(st.vis, x)]
    ELSE process_composite([st EXCEPT !.vis = Append(st.vis, x)], x, mode)

TvInit ==
    /\ mode_ = "depth_first_preorder"
    /\ results_ = <<>>
    /\ visited = <<>>
    /\ tv_applied = <<>>

\* void set_traversal_mode(traversal_mode mode)
SetTraversalMode ==
    \E mode \in Modes :
        /\ op' = "set_traversal_mode"
        /\ mode_' = mode
        /\ ret' = NULL
        /\ UNCHANGED <<results_, visited, tv_applied>>

\* result_type visit(const leaf<ValueType>&) and
\* result_type visit(const composite<ComponentTypes...>&)
TreeVisit ==
    \E x \in Nodes :
        LET st == tv_visit([res |-> results_, vis |-> visited], x, mode_)
        IN  /\ Len(tv_applied) < MaxTreeVisits
            /\ op' = "visit"
            /\ results_' = st.res
            /\ visited' = st.vis
            /\ tv_applied' = Append(tv_applied, x)
            /\ ret' = NULL
            /\ UNCHANGED mode_

\* void clear_results()
ClearResults ==
    /\ op' = "clear_results"
    /\ results_' = <<>>
    /\ visited' = <<>>
    /\ tv_applied' = <<>>
    /\ ret' = NULL
    /\ UNCHANGED mode_

\* ------------------------------------------------------- tree_iterator
Orders == {"depth_first_preorder", "depth_first_postorder", "breadth_first"}
DfsOrders == {"depth_first_preorder", "depth_first_postorder"}

\* The cursor as a value: the fields of a tree_iterator but root_.
\* A std::stack is a sequence with its top at the end, a std::queue a
\* sequence with its front at the head.
Cursor == [order |-> order_, dfs |-> dfs_stack_, bfs |-> bfs_queue_, cur |-> current_]

has_next_dfs_only(c) == c.dfs # <<>>

\* tree_iterator::has_next
has_next(c) ==
    CASE c.order \in DfsOrders -> c.dfs # <<>>
      [] c.order = "breadth_first" -> c.bfs # <<>>
      [] OTHER -> FALSE

\* tree_iterator::initialize_traversal
initialize_traversal(c, root) ==
    CASE c.order \in DfsOrders ->
            [c EXCEPT !.dfs = c.dfs \o Reverse(children[root])]
      [] c.order = "breadth_first" ->
            [c EXCEPT !.bfs = c.bfs \o children[root]]
      [] OTHER -> c

\* tree_iterator::tree_iterator
tree_iterator(root, order) ==
    LET c == [order |-> order, dfs |-> <<>>, bfs |-> <<>>, cur |-> NULL]
    IN  IF root # NULL /\ children[root] # <<>>
        THEN initialize_traversal(c, root) ELSE c

reset_keeps_pending(c, root) ==
    LET e == [c EXCEPT !.cur = NULL]
    IN  IF root # NULL /\ children[root] # <<>>
        THEN initialize_traversal(e, root) ELSE e

\* tree_iterator::reset
reset(c, root) ==
    LET e == [c EXCEPT !.dfs = <<>>, !.bfs = <<>>, !.cur = NULL]
    IN  IF root # NULL /\ children[root] # <<>>
        THEN initialize_traversal(e, root) ELSE e

\* tree_iterator::set_traversal_order
set_traversal_order(c, root, new_order) ==
    reset([c EXCEPT !.order = new_order], root)

next_dfs_preorder_unreversed(c) ==
    LET top == c.dfs[Len(c.dfs)]
        popped == SubSeq(c.dfs, 1, Len(c.dfs) - 1)
    IN  [c EXCEPT !.cur = top,
                  !.dfs = IF kind[top] = "composite"
                          THEN popped \o children[top]
                          ELSE popped]

\* tree_iterator::next_dfs_preorder
next_dfs_preorder(c) ==
    LET top == c.dfs[Len(c.dfs)]
        popped == SubSeq(c.dfs, 1, Len(c.dfs) - 1)
    IN  [c EXCEPT !.cur = top,
                  !.dfs = IF kind[top] = "composite"
                          THEN popped \o Reverse(children[top])
                          ELSE popped]

\* tree_iterator::next_dfs_postorder
next_dfs_postorder(c) == next_dfs_preorder(c)

next_bfs_children_first(c) ==
    LET front == Head(c.bfs)
    IN  [c EXCEPT !.cur = front,
                  !.bfs = IF kind[front] = "composite"
                          THEN children[front] \o Tail(c.bfs)
                          ELSE Tail(c.bfs)]

\* tree_iterator::next_bfs
next_bfs(c) ==
    LET front == Head(c.bfs)
    IN  [c EXCEPT !.cur = front,
                  !.bfs = IF kind[front] = "composite"
                          THEN Tail(c.bfs) \o children[front]
                          ELSE Tail(c.bfs)]

\* tree_iterator::next, when has_next() holds: the dispatch on order_
next(c) ==
    CASE c.order = "depth_first_preorder" -> next_dfs_preorder(c)
      [] c.order = "depth_first_postorder" -> next_dfs_postorder(c)
      [] c.order = "breadth_first" -> next_bfs(c)

\* tree_iterator::for_each with op = an accumulate_visitor's visit: the
\* result is the cursor, the nodes handed to op and the visitor's value.
RECURSIVE for_each(_, _, _)
for_each(c, seen, acc) ==
    IF ~has_next(c) THEN [c |-> c, seen |-> seen, acc |-> acc]
    ELSE LET d == next(c)
         IN  for_each(d, Append(seen, d.cur), AccVisit(acc, d.cur))

SetCursor(c) ==
    /\ order_' = c.order
    /\ dfs_stack_' = c.dfs
    /\ bfs_queue_' = c.bfs
    /\ current_' = c.cur
    /\ root_' = root_

IterInit ==
    /\ \E o \in Orders :
         LET c == tree_iterator(root_, o)
         IN  /\ order_ = c.order
             /\ dfs_stack_ = c.dfs
             /\ bfs_queue_ = c.bfs
             /\ current_ = c.cur
    /\ yielded = <<>>
    /\ op = "tree_iterator"
    /\ ret = NULL
    /\ err = ""
    /\ pre_len = 0

\* bool has_next() const
HasNext ==
    /\ op' = "has_next"
    /\ ret' = IF has_next(Cursor) THEN 1 ELSE 0
    /\ err' = ""
    /\ pre_len' = Len(yielded)
    /\ UNCHANGED <<cursorVars, yielded>>

Next_sentinel ==
    /\ op' = "next"
    /\ IF ~has_next(Cursor)
       THEN /\ err' = ""
            /\ ret' = NULL
            /\ UNCHANGED <<cursorVars, yielded>>
       ELSE /\ SetCursor(next(Cursor))
            /\ err' = ""
            /\ ret' = current_'
            /\ yielded' = Append(yielded, current_')
    /\ pre_len' = Len(yielded)

\* const variant_type& next()
Next_ ==
    /\ op' = "next"
    /\ IF ~has_next(Cursor)
       THEN /\ err' = "No more elements to iterate"
            /\ ret' = NULL
            /\ UNCHANGED <<cursorVars, yielded>>
       ELSE /\ SetCursor(next(Cursor))
            /\ err' = ""
            /\ ret' = current_'
            /\ yielded' = Append(yielded, current_')
    /\ pre_len' = Len(yielded)

\* void reset()
Reset ==
    /\ op' = "reset"
    /\ SetCursor(reset(Cursor, root_))
    /\ yielded' = <<>>
    /\ ret' = NULL
    /\ err' = ""
    /\ pre_len' = Len(yielded)

\* void set_traversal_order(traversal_order new_order)
SetTraversalOrder ==
    \E new_order \in Orders :
        /\ op' = "set_traversal_order"
        /\ SetCursor(set_traversal_order(Cursor, root_, new_order))
        /\ yielded' = <<>>
        /\ ret' = NULL
        /\ err' = ""
        /\ pre_len' = Len(yielded)

\* void for_each(op), op applying a new accumulate_visitor<int> to every
\* node it is handed
ForEach ==
    LET r == for_each(Cursor, <<>>, 0)
    IN  /\ op' = "for_each"
        /\ SetCursor(r.c)
        /\ yielded' = yielded \o r.seen
        /\ pre_len' = Len(yielded)
        /\ ret' = r.acc
        /\ err' = ""

\* ----------------------------------------------------- origami_iterator
\* origami_iterator::has_next_sibling
has_next_sibling(parent) == FALSE

\* origami_iterator::get_next_sibling
get_next_sibling(parent) == NULL

\* origami_iterator::move_to_next_sibling_or_parent: the result is
\* <<current_ptr_, traversal_stack_>>
RECURSIVE move_to_next_sibling_or_parent(_, _)
move_to_next_sibling_or_parent(ptr, stack) ==
    IF stack = <<>> THEN <<NULL, stack>>
    ELSE LET parent == stack[Len(stack)]
             popped == SubSeq(stack, 1, Len(stack) - 1)
         IN  IF has_next_sibling(parent)
             THEN <<get_next_sibling(parent), popped>>
             ELSE move_to_next_sibling_or_parent(ptr, popped)

\* origami_iterator::advance_to_next
advance_to_next(ptr, stack) ==
    IF ptr = NULL THEN <<ptr, stack>>
    ELSE IF kind[ptr] = "composite" /\ children[ptr] # <<>>
         THEN <<children[ptr][1], Append(stack, ptr)>>
         ELSE move_to_next_sibling_or_parent(ptr, stack)

OrigamiInit ==
    /\ traversal_stack_ = <<>>

\* origami_iterator& operator++()
Increment ==
    LET r == advance_to_next(current_ptr_, traversal_stack_)
    IN  /\ op' = "operator++"
        /\ current_ptr_' = r[1]
        /\ traversal_stack_' = r[2]
        /\ ret' = NULL
        /\ err' = ""
        /\ pre_len' = Len(yielded)

\* reference operator*() const
Dereference ==
    /\ op' = "operator*"
    /\ IF current_ptr_ = NULL
       THEN err' = "Dereferencing null iterator" /\ ret' = NULL
       ELSE err' = "" /\ ret' = current_ptr_
    /\ pre_len' = Len(yielded)
    /\ UNCHANGED origamiVars

\* ----------------------------------------------------- variant_visitor
\* variant_visitor<int_leaf, string_leaf>: the element types of the variant.
ElementTypes == {"int_leaf", "string_leaf"}

\* The visitor functions a client registers.
VisitorFunctions == {"f", "g"}

\* The std::function stored in visitors_: it holds the visitor function and
\* the type T it was made for.  Called with a variant, it std::visit()s it
\* and calls the visitor function if the element held is a T, and throws
\* otherwise.
Wrapper(func, T) == [func |-> func, type |-> T]

\* visitors_[type] = wrapper
Assign(map, T, w) == [x \in (DOMAIN map) \cup {T} |-> IF x = T THEN w ELSE map[x]]

VvInit ==
    /\ visitors_ = <<>>
    /\ vv_calls = <<>>

\* void register_visitor(VisitorFunction&&): for_each_type stores a wrapper
\* of the function for every type of the element list.
RegisterVisitor ==
    \E func \in VisitorFunctions :
        /\ op' = "register_visitor"
        /\ arg' = <<func>>
        /\ visitors_' = [T \in ElementTypes |-> Wrapper(func, T)]
        /\ ret' = NULL
        /\ err' = ""
        /\ UNCHANGED vv_calls

\* void register_visitor_for_type<ElementType>(VisitorFunction&&)
RegisterVisitorForType ==
    \E T \in ElementTypes, func \in VisitorFunctions :
        /\ op' = "register_visitor_for_type"
        /\ arg' = <<T, func>>
        /\ visitors_' = Assign(visitors_, T, Wrapper(func, T))
        /\ ret' = NULL
        /\ err' = ""
        /\ UNCHANGED vv_calls

VvVisit_skipping ==
    \E E \in ElementTypes :
        /\ Len(vv_calls) < MaxHandlerCalls
        /\ op' = "visit"
        /\ arg' = <<E>>
        /\ ret' = NULL
        /\ err' = ""
        /\ vv_calls' = IF E \in DOMAIN visitors_
                       THEN Append(vv_calls, <<visitors_[E].func, E>>)
                       ELSE vv_calls
        /\ UNCHANGED visitors_

\* auto visit(const ElementType& element)
VvVisit ==
    \E E \in ElementTypes :
        /\ Len(vv_calls) < MaxHandlerCalls
        /\ op' = "visit"
        /\ arg' = <<E>>
        /\ ret' = NULL
        /\ IF E \in DOMAIN visitors_
           THEN LET w == visitors_[E]
                IN  IF w.type = E
                    THEN err' = "" /\ vv_calls' = Append(vv_calls, <<w.func, E>>)
                    ELSE err' = "Type mismatch in visitor" /\ UNCHANGED vv_calls
           ELSE err' = "No visitor registered for this type" /\ UNCHANGED vv_calls
        /\ UNCHANGED visitors_

\* ------------------------------------------- composite: add and clone
\* The objects live in a heap h: h.kind, h.value, h.name and h.children are
\* the tables kind, value, name_ and children.  An element of a children_
\* vector is the object stored in it, so the vector of one composite never
\* holds an element of another vector unless a copy failed to copy.
Heap == [children |-> children, kind |-> kind, value |-> value, name |-> name_]

\* The names given to composites: the default of the constructor, and the
\* one set_name is called with.
Names == {"Composite", "renamed"}

\* The children a client passes to add / add_copy / emplace:
\* <<kind, leaf value, composite name>>.
ChildArgs == {<<"leaf", 10, "">>, <<"composite", 0, "Composite">>}

Extend(f, n, val) == [x \in (DOMAIN f) \cup {n} |-> IF x = n THEN val ELSE f[x]]

\* A new object: leaf(value) or composite(name), at the next free place.
Construct(h, k, v, nm) ==
    LET n == Cardinality(DOMAIN h.kind)
    IN  [h |-> [children |-> Extend(h.children, n, <<>>),
                kind |-> Extend(h.kind, n, k),
                value |-> Extend(h.value, n, v),
                name |-> Extend(h.name, n, nm)],
         id |-> n]

\* children_.push_back of the object n into the vector of x
push_back(h, x, n) == [h EXCEPT !.children[x] = Append(@, n)]

\* The copy constructors: leaf copies value_, composite copies name_ and
\* children_, and copying a vector copies each element in turn.
RECURSIVE Copy(_, _), CopyChildren(_, _, _)
CopyChildren(h, cs, n) ==
    IF cs = <<>> THEN h
    ELSE LET r == Copy(h, Head(cs))
         IN  CopyChildren(push_back(r.h, n, r.id), Tail(cs), n)

Copy(h, x) ==
    LET r == Construct(h, h.kind[x], h.value[x], h.name[x])
    IN  [h |-> CopyChildren(r.h, h.children[x], r.id), id |-> r.id]

clone_impl_sharing_children(h, x) ==
    LET r == Construct(h, "composite", 0, h.name[x])
    IN  [h |-> [r.h EXCEPT !.children[r.id] = h.children[x]], id |-> r.id]

\* std::unique_ptr<composite> composite::clone_impl() const
clone_impl(h, x) ==
    LET r == Construct(h, "composite", 0, h.name[x])
    IN  [h |-> CopyChildren(r.h, h.children[x], r.id), id |-> r.id]

SetHeap(h) ==
    /\ children' = h.children
    /\ kind' = h.kind
    /\ value' = h.value
    /\ name_' = h.name

CompInit ==
    /\ name_ = [x \in Nodes |-> IF kind[x] = "composite" THEN "Composite" ELSE ""]
    /\ clone_ = NULL
    /\ added = <<>>
    /\ changes = 0

Composites == {x \in Nodes : kind[x] = "composite"}

AddChild_in_front(fn, x, c) ==
    LET r == Construct(Heap, c[1], c[2], c[3])
    IN  /\ Len(added) < MaxAdds
        /\ op' = fn
        /\ arg' = <<x, c>>
        /\ SetHeap([r.h EXCEPT !.children[x] = <<r.id>> \o @])
        /\ added' = Append(added, <<x, c>>)
        /\ ret' = NULL
        /\ err' = ""
        /\ UNCHANGED <<clone_, changes>>

\* What add, add_copy and emplace do to the composite x, given the child.
AddChild(fn, x, c) ==
    LET r == Construct(Heap, c[1], c[2], c[3])
    IN  /\ Len(added) < MaxAdds
        /\ op' = fn
        /\ arg' = <<x, c>>
        /\ SetHeap(push_back(r.h, x, r.id))
        /\ added' = Append(added, <<x, c>>)
        /\ ret' = NULL
        /\ err' = ""
        /\ UNCHANGED <<clone_, changes>>

\* void add(ChildType&& child)
Add == \E x \in Composites, c \in ChildArgs : AddChild("add", x, c)

\* void add_copy(const ChildType& child)
AddCopy == \E x \in Composites, c \in ChildArgs : AddChild("add_copy", x, c)

\* void emplace<ChildType>(Args&&... args)
Emplace == \E x \in Composites, c \in ChildArgs : AddChild("emplace", x, c)

\* void set_name(std::string name)
SetName ==
    \E x \in Composites, nm \in Names :
        /\ changes < MaxChanges
        /\ changes' = changes + 1
        /\ op' = "set_name"
        /\ arg' = <<x, nm>>
        /\ name_' = [name_ EXCEPT ![x] = nm]
        /\ ret' = NULL
        /\ err' = ""
        /\ UNCHANGED <<treeVars, clone_, added>>

\* T& leaf::value(), assigned through
SetValue ==
    \E x \in Nodes \ Composites, v \in Values :
        /\ changes < MaxChanges
        /\ changes' = changes + 1
        /\ op' = "value"
        /\ arg' = <<x, v>>
        /\ value' = [value EXCEPT ![x] = v]
        /\ ret' = NULL
        /\ err' = ""
        /\ UNCHANGED <<children, kind, name_, clone_, added>>

\* std::unique_ptr<Derived> component_base::clone() const, called on the
\* composite the client built.
Clone ==
    LET r == clone_impl(Heap, 0)
    IN  /\ clone_ = NULL
        /\ op' = "clone"
        /\ arg' = <<0>>
        /\ SetHeap(r.h)
        /\ clone_' = r.id
        /\ ret' = r.id
        /\ err' = ""
        /\ UNCHANGED <<added, changes>>

\* ------------------------------------------------ subject, auto_observer
\* The observers the client holds in shared_ptrs, and the auto_observer
\* objects it constructs and destroys.
PlainObservers == {1, 2, 4}
AutoObservers == {3}

\* The observers whose notify() throws a std::exception, and those whose
\* notify() throws an object of another type.
ThrowingObservers == {2}
OtherThrowingObservers == {4}

Without(s, x) == SelectSeq(s, LAMBDA e : e # x)

SubjectInit ==
    /\ enable_validation \in BOOLEAN
    /\ observers_ = <<>>
    /\ notification_in_progress_ = FALSE
    /\ notifying = FALSE
    /\ observers_snapshot = <<>>
    /\ snapshot_pos = 0
    /\ notified = <<>>
    /\ alive = {}
    /\ exceptions_alive = {}

\* validation_policy::assert_that(condition, message): the message of the
\* std::logic_error thrown, "" if none is.
assert_that(condition, message) ==
    IF enable_validation /\ ~condition THEN message ELSE ""

\* void add_observer(std::shared_ptr<ObserverType> observer)
AddObserver ==
    \E observer \in PlainObservers \cup {NULL} :
        LET e == assert_that(observer # NULL, "Observer cannot be null")
        IN  /\ client_ = "subject"
            /\ Len(observers_) < MaxObservers
            /\ op' = "add_observer"
            /\ arg' = <<observer>>
            /\ err' = e
            /\ observers_' = IF e = "" THEN Append(observers_, observer) ELSE observers_
            /\ ret' = NULL
            /\ UNCHANGED <<enable_validation, notification_in_progress_, notifying,
                           observers_snapshot, snapshot_pos, notified, alive,
                           exceptions_alive>>

remove_observer_first_entry(list, observer) ==
    IF Pos(list, observer) = 0 THEN list
    ELSE SubSeq(list, 1, Pos(list, observer) - 1)
             \o SubSeq(list, Pos(list, observer) + 1, Len(list))

\* subject::remove_observer: erase(remove_if(... obs == observer ...), end())
remove_observer(list, observer) == Without(list, observer)

\* void remove_observer(std::shared_ptr<ObserverType> observer)
RemoveObserver ==
    \E observer \in PlainObservers \cup {NULL} :
        /\ client_ = "subject"
        /\ op' = "remove_observer"
        /\ arg' = <<observer>>
        /\ observers_' = remove_observer(observers_, observer)
        /\ ret' = NULL
        /\ err' = ""
        /\ UNCHANGED <<enable_validation, notification_in_progress_, notifying,
                       observers_snapshot, snapshot_pos, notified, alive,
                       exceptions_alive>>

\* void notify_all(const EventType&), up to the loop: the snapshot is taken.
\* The client starts no notify_all from a callback of a running one.
NotifyAll ==
    /\ client_ = "subject"
    /\ ~notifying
    /\ op' = "notify_all"
    /\ arg' = <<>>
    /\ observers_snapshot' = observers_
    /\ notification_in_progress_' = TRUE
    /\ notifying' = TRUE
    /\ snapshot_pos' = 0
    /\ notified' = <<>>
    /\ ret' = NULL
    /\ err' = ""
    /\ UNCHANGED <<enable_validation, observers_, alive, exceptions_alive>>

\* The element of the list the loop of notify_all has come to.
loop_element_of_live_list(snapshot, live, pos) ==
    IF pos + 1 <= Len(live) THEN live[pos + 1] ELSE NULL

loop_element(snapshot, live, pos) == snapshot[pos + 1]

\* One iteration of the loop of notify_all: notify() of the next element of
\* the snapshot is called unless the element is null; a std::exception it
\* throws is caught by catch (const std::exception&), and an object of
\* another type it throws leaves notify_all through the loop, with
\* notification_in_progress_ as it is.  What the callback does to the
\* subject are the calls made before the next iteration.
NotifyObserver ==
    LET observer == loop_element(observers_snapshot, observers_, snapshot_pos)
    IN  /\ client_ = "subject"
        /\ notifying
        /\ snapshot_pos < Len(observers_snapshot)
        /\ op' = "notify"
        /\ arg' = <<observer>>
        /\ snapshot_pos' = snapshot_pos + 1
        /\ notified' = IF observer # NULL THEN Append(notified, observer) ELSE notified
        /\ ret' = IF observer \in ThrowingObservers THEN "Notification failed" ELSE NULL
        /\ err' = IF observer \in OtherThrowingObservers
                  THEN "exception thrown by notify" ELSE ""
        /\ notifying' = (observer \notin OtherThrowingObservers)
        /\ UNCHANGED <<enable_validation, observers_, notification_in_progress_,
                       observers_snapshot, alive, exceptions_alive>>

\* notify_all after the loop
NotifyAllReturn ==
    /\ client_ = "subject"
    /\ notifying
    /\ snapshot_pos = Len(observers_snapshot)
    /\ op' = "notify_all returns"
    /\ arg' = <<>>
    /\ notification_in_progress_' = FALSE
    /\ notifying' = FALSE
    /\ ret' = NULL
    /\ err' = ""
    /\ UNCHANGED <<enable_validation, observers_, observers_snapshot, snapshot_pos,
                   notified, alive, exceptions_alive>>

\* size_t observer_count() const
ObserverCount ==
    /\ client_ = "subject"
    /\ op' = "observer_count"
    /\ arg' = <<>>
    /\ ret' = Len(observers_)
    /\ err' = ""
    /\ UNCHANGED subjectVars

\* void clear_observers()
ClearObservers ==
    /\ client_ = "subject"
    /\ op' = "clear_observers"
    /\ arg' = <<>>
    /\ observers_' = <<>>
    /\ ret' = NULL
    /\ err' = ""
    /\ UNCHANGED <<enable_validation, notification_in_progress_, notifying,
                   observers_snapshot, snapshot_pos, notified, alive,
                   exceptions_alive>>

\* explicit auto_observer(SubjectType& subject): subject_.add_observer(self_).
\* The client constructs and destroys auto_observers outside notify_all.
AutoObserverCtor ==
    \E a \in AutoObservers \ alive :
        /\ client_ = "subject"
        /\ ~notifying
        /\ Len(observers_) < MaxObservers
        /\ op' = "auto_observer"
        /\ arg' = <<a>>
        /\ alive' = alive \cup {a}
        /\ observers_' = Append(observers_, a)
        /\ exceptions_alive' = {}
        /\ ret' = NULL
        /\ err' = ""
        /\ UNCHANGED <<enable_validation, notification_in_progress_, notifying,
                       observers_snapshot, snapshot_pos, notified>>

\* virtual ~auto_observer() noexcept: try { subject_.remove_observer(self_); }
\* catch (...) { }.  RemoveThrows are the outcomes of remove_observer of the
\* SubjectType (TRUE: it throws, before it removes anything); the destructor
\* runs at the end of a scope, left normally or by an exception passing
\* through it (unwinding).
AutoObserverDtor(RemoveThrows) ==
    \E a \in alive, throws \in RemoveThrows, unwinding \in BOOLEAN :
        /\ client_ = "subject"
        /\ ~notifying
        /\ op' = "~auto_observer"
        /\ arg' = <<a, throws, unwinding>>
        /\ alive' = alive \ {a}
        /\ observers_' = IF throws THEN observers_ ELSE remove_observer(observers_, a)
        /\ exceptions_alive' = IF unwinding THEN {"exception passing through"} ELSE {}
        /\ ret' = NULL
        /\ err' = ""
        /\ UNCHANGED <<enable_validation, notification_in_progress_, notifying,
                       observers_snapshot, snapshot_pos, notified>>

\* --------------------------------------------------------------- signal
\* The callables the client connects.
Slots == {"slot", "throwing_slot", "other_throwing_slot"}

SignalInit ==
    /\ slots_ = <<>>
    /\ next_id_ = 0
    /\ slots_snapshot = <<>>
    /\ emit_pos = 0
    /\ emitting = FALSE
    /\ emitted = <<>>

\* connection_id connect(slot_type slot)
Connect ==
    \E slot \in Slots :
        /\ client_ = "signal"
        /\ next_id_ < MaxObservers
        /\ op' = "connect"
        /\ arg' = <<slot>>
        /\ next_id_' = next_id_ + 1
        /\ slots_' = Append(slots_, <<next_id_, slot>>)
        /\ ret' = next_id_
        /\ err' = ""
        /\ UNCHANGED <<slots_snapshot, emit_pos, emitting, emitted>>

\* void disconnect(connection_id id)
Disconnect ==
    \E id \in 0..(MaxObservers - 1) :
        /\ client_ = "signal"
        /\ op' = "disconnect"
        /\ arg' = <<id>>
        /\ slots_' = SelectSeq(slots_, LAMBDA pair : pair[1] # id)
        /\ ret' = NULL
        /\ err' = ""
        /\ UNCHANGED <<next_id_, slots_snapshot, emit_pos, emitting, emitted>>

\* void disconnect_all()
DisconnectAll ==
    /\ client_ = "signal"
    /\ op' = "disconnect_all"
    /\ arg' = <<>>
    /\ slots_' = <<>>
    /\ ret' = NULL
    /\ err' = ""
    /\ UNCHANGED <<next_id_, slots_snapshot, emit_pos, emitting, emitted>>

\* void emit(Args... args), up to the loop.  The client starts no emit from
\* a slot of a running one.
Emit ==
    /\ client_ = "signal"
    /\ ~emitting
    /\ op' = "emit"
    /\ arg' = <<>>
    /\ slots_snapshot' = slots_
    /\ emit_pos' = 0
    /\ emitting' = TRUE
    /\ emitted' = <<>>
    /\ ret' = NULL
    /\ err' = ""
    /\ UNCHANGED <<slots_, next_id_>>

\* One iteration of the loop of emit: the slot is called, a std::exception
\* it throws is caught by catch (const std::exception&), and an object of
\* another type it throws leaves emit through the loop.
EmitSlot ==
    /\ client_ = "signal"
    /\ emitting
    /\ emit_pos < Len(slots_snapshot)
    /\ op' = "slot"
    /\ arg' = <<slots_snapshot[emit_pos + 1][1]>>
    /\ emit_pos' = emit_pos + 1
    /\ emitted' = Append(emitted, slots_snapshot[emit_pos + 1][1])
    /\ ret' = IF slots_snapshot[emit_pos + 1][2] = "throwing_slot"
              THEN "Signal emission failed" ELSE NULL
    /\ err' = IF slots_snapshot[emit_pos + 1][2] = "other_throwing_slot"
              THEN "exception thrown by slot" ELSE ""
    /\ emitting' = (slots_snapshot[emit_pos + 1][2] # "other_throwing_slot")
    /\ UNCHANGED <<slots_, next_id_, slots_snapshot>>

\* emit after the loop
EmitReturn ==
    /\ client_ = "signal"
    /\ emitting
    /\ emit_pos = Len(slots_snapshot)
    /\ op' = "emit returns"
    /\ arg' = <<>>
    /\ emitting' = FALSE
    /\ ret' = NULL
    /\ err' = ""
    /\ UNCHANGED <<slots_, next_id_, slots_snapshot, emit_pos, emitted>>

\* size_t connection_count() const
ConnectionCount ==
    /\ client_ = "signal"
    /\ op' = "connection_count"
    /\ arg' = <<>>
    /\ ret' = Len(slots_)
    /\ err' = ""
    /\ UNCHANGED signalVars

ObsInit ==
    /\ client_ \in {"subject", "signal"}
    /\ SubjectInit
    /\ SignalInit

\* No subject and no signal is in use.
ObsIdle ==
    /\ client_ = "subject"
    /\ enable_validation = TRUE
    /\ observers_ = <<>>
    /\ notification_in_progress_ = FALSE
    /\ notifying = FALSE
    /\ observers_snapshot = <<>>
    /\ snapshot_pos = 0
    /\ notified = <<>>
    /\ alive = {}
    /\ exceptions_alive = {}
    /\ SignalInit

\* ------------------------------------------- commands and their receivers
\* A std::string is the sequence of its chars: "a" is <<97>>.
\* document doc("a"), lightbulb bulb, int counter = 0
Receivers == {"document", "lightbulb", "counter"}

\* The fields of the receivers.
Receiver ==
    [content |-> content_, clipboard |-> clipboard_,
     brightness |-> brightness_, red |-> red_, green |-> green_, blue |-> blue_,
     is_on |-> is_on_, counter |-> counter]

SetReceiver(r) ==
    /\ content_' = r.content
    /\ clipboard_' = r.clipboard
    /\ brightness_' = r.brightness
    /\ red_' = r.red
    /\ green_' = r.green
    /\ blue_' = r.blue
    /\ is_on_' = r.is_on
    /\ counter' = r.counter

ReceiverInit ==
    /\ content_ = <<97>>
    /\ clipboard_ = <<>>
    /\ brightness_ = 0
    /\ red_ = 0 /\ green_ = 0 /\ blue_ = 0
    /\ is_on_ = FALSE
    /\ counter = 0

\* A command object: its type, the arguments of its constructor and the
\* state it saved for undo (previous_content, previous_brightness,
\* prev_r / prev_g / prev_b).  A functional_command is made of an
\* execute_func that adds args[1] to the counter and, when args[2] = 1, an
\* undo_func that subtracts it.
Command(type, args) == [type |-> type, args |-> args, prev |-> <<>>]

\* The commands a client constructs for its receiver.
Commands(receiver) ==
    IF receiver = "document"
    THEN {Command("copy_command", <<>>), Command("paste_command", <<>>),
          Command("cut_command", <<>>), Command("append_text_command", <<98>>)}
    ELSE IF receiver = "lightbulb"
    THEN {Command("set_brightness_command", <<50>>),
          Command("set_brightness_command", <<75>>),
          Command("set_color_command", <<255, 0, 0>>),
          Command("toggle_command", <<>>)}
    ELSE {Command("functional_command", <<1, 1>>),
          Command("functional_command", <<-1, 1>>),
          Command("functional_command", <<1, 0>>)}

\* cmd.execute(): the command and the receiver afterwards
execute(cmd, r) ==
    CASE cmd.type = "copy_command" ->
           [cmd |-> cmd, r |-> [r EXCEPT !.clipboard = r.content]]
      [] cmd.type = "paste_command" ->
           [cmd |-> [cmd EXCEPT !.prev = r.content],
            r |-> [r EXCEPT !.content = r.content \o r.clipboard]]
      [] cmd.type = "cut_command" ->
           [cmd |-> [cmd EXCEPT !.prev = r.content],
            r |-> [r EXCEPT !.clipboard = r.content, !.content = <<>>]]
      [] cmd.type = "append_text_command" ->
           [cmd |-> [cmd EXCEPT !.prev = r.content],
            r |-> [r EXCEPT !.content = r.content \o cmd.args]]
      [] cmd.type = "set_brightness_command" ->
           [cmd |-> [cmd EXCEPT !.prev = <<r.brightness>>],
            r |-> [r EXCEPT !.brightness = cmd.args[1]]]
      [] cmd.type = "set_color_command" ->
           [cmd |-> [cmd EXCEPT !.prev = <<r.red, r.green, r.blue>>],
            r |-> [r EXCEPT !.red = cmd.args[1], !.green = cmd.args[2],
                            !.blue = cmd.args[3]]]
      [] cmd.type = "toggle_command" ->
           [cmd |-> cmd, r |-> [r EXCEPT !.is_on = ~r.is_on]]
      [] cmd.type = "functional_command" ->
           [cmd |-> cmd, r |-> [r EXCEPT !.counter = r.counter + cmd.args[1]]]

\* cmd.undo(): the receiver afterwards
undo(cmd, r) ==
    CASE cmd.type \in {"paste_command", "cut_command", "append_text_command"} ->
           [r EXCEPT !.content = cmd.prev]
      [] cmd.type = "set_brightness_command" ->
           [r EXCEPT !.brightness = cmd.prev[1]]
      [] cmd.type = "set_color_command" ->
           [r EXCEPT !.red = cmd.prev[1], !.green = cmd.prev[2], !.blue = cmd.prev[3]]
      [] cmd.type = "toggle_command" -> execute(cmd, r).r
      [] cmd.type = "functional_command" ->
           IF cmd.args[2] = 1 THEN [r EXCEPT !.counter = r.counter - cmd.args[1]] ELSE r

\* requires { cmd.can_undo(); } and requires { cmd.undo(); }
has_can_undo(cmd) == cmd.type # "copy_command"
has_undo(cmd) == cmd.type # "copy_command"

\* cmd.can_undo()
can_undo(cmd) ==
    IF cmd.type = "functional_command" THEN cmd.args[2] = 1 ELSE TRUE

\* --------------------------------------------------------- command_invoker
\* std::stack: push is Append, top is the last element.
Top(stack) == stack[Len(stack)]
Pop(stack) == SubSeq(stack, 1, Len(stack) - 1)

\* What the client sees of the receiver: the content of the document, the
\* brightness, colour and on / off of the lightbulb, the counter.
Observable(r) == <<r.content, r.brightness, r.red, r.green, r.blue, r.is_on, r.counter>>

InvokerInit ==
    /\ undo_stack_ = <<>>
    /\ redo_stack_ = <<>>
    /\ executed = 0
    /\ trail = <<>>

ExecuteCommand_recording_all ==
    \E command \in Commands(receiver_) :
        LET x == execute(command, Receiver)
        IN  /\ executed < MaxCommands
            /\ Len(content_) + Len(clipboard_) <= MaxTextLen
            /\ executed' = executed + 1
            /\ op' = "execute_command"
            /\ arg' = <<command>>
            /\ SetReceiver(x.r)
            /\ undo_stack_' = Append(undo_stack_, x.cmd)
            /\ redo_stack_' = <<>>
            /\ trail' = Append(trail, Observable(Receiver))
            /\ ret' = NULL
            /\ err' = ""

ExecuteCommand_keeping_redo ==
    \E command \in Commands(receiver_) :
        LET x == execute(command, Receiver)
            recorded == has_can_undo(x.cmd) /\ can_undo(x.cmd)
        IN  /\ executed < MaxCommands
            /\ Len(content_) + Len(clipboard_) <= MaxTextLen
            /\ executed' = executed + 1
            /\ op' = "execute_command"
            /\ arg' = <<command>>
            /\ SetReceiver(x.r)
            /\ undo_stack_' = IF recorded THEN Append(undo_stack_, x.cmd) ELSE undo_stack_
            /\ redo_stack_' = redo_stack_
            /\ trail' = IF recorded THEN Append(trail, Observable(Receiver))
                        ELSE IF Observable(x.r) = Observable(Receiver) THEN trail
                        ELSE <<>>
            /\ ret' = NULL
            /\ err' = ""

\* void execute_command(CommandType&& command)
ExecuteCommand ==
    \E command \in Commands(receiver_) :
        LET x == execute(command, Receiver)
            recorded == has_can_undo(x.cmd) /\ can_undo(x.cmd)
        IN  /\ executed < MaxCommands
            /\ Len(content_) + Len(clipboard_) <= MaxTextLen
            /\ executed' = executed + 1
            /\ op' = "execute_command"
            /\ arg' = <<command>>
            /\ SetReceiver(x.r)
            /\ undo_stack_' = IF recorded THEN Append(undo_stack_, x.cmd) ELSE undo_stack_
            /\ redo_stack_' = IF recorded THEN <<>> ELSE redo_stack_
            /\ trail' = IF recorded THEN Append(trail, Observable(Receiver))
                        ELSE IF Observable(x.r) = Observable(Receiver) THEN trail
                        ELSE <<>>
            /\ ret' = NULL
            /\ err' = ""

Undo_oldest_first ==
    /\ op' = "undo"
    /\ arg' = <<>>
    /\ err' = ""
    /\ IF undo_stack_ = <<>>
       THEN /\ ret' = FALSE
            /\ UNCHANGED <<receiverVars, invokerVars, trail>>
       ELSE LET command == Head(undo_stack_)
            IN  /\ undo_stack_' = Tail(undo_stack_)
                /\ SetReceiver(undo(command, Receiver))
                /\ redo_stack_' = Append(redo_stack_, command)
                /\ trail' = IF trail = <<>> THEN <<>> ELSE Pop(trail)
                /\ ret' = TRUE
    /\ UNCHANGED executed

\* bool undo()
Undo ==
    /\ op' = "undo"
    /\ arg' = <<>>
    /\ err' = ""
    /\ IF undo_stack_ = <<>>
       THEN /\ ret' = FALSE
            /\ UNCHANGED <<receiverVars, invokerVars, trail>>
       ELSE LET command == Top(undo_stack_)
            IN  /\ undo_stack_' = Pop(undo_stack_)
                /\ IF has_undo(command)
                   THEN /\ SetReceiver(undo(command, Receiver))
                        /\ redo_stack_' = Append(redo_stack_, command)
                   ELSE UNCHANGED <<receiverVars, redo_stack_>>
                /\ trail' = IF trail = <<>> THEN <<>> ELSE Pop(trail)
                /\ ret' = TRUE
    /\ UNCHANGED executed

Redo_dropping_command ==
    /\ Len(content_) + Len(clipboard_) <= MaxTextLen
    /\ op' = "redo"
    /\ arg' = <<>>
    /\ err' = ""
    /\ IF redo_stack_ = <<>>
       THEN /\ ret' = FALSE
            /\ UNCHANGED <<receiverVars, invokerVars, trail>>
       ELSE LET x == execute(Top(redo_stack_), Receiver)
            IN  /\ redo_stack_' = Pop(redo_stack_)
                /\ SetReceiver(x.r)
                /\ undo_stack_' = undo_stack_
                /\ trail' = <<>>
                /\ ret' = TRUE
    /\ UNCHANGED executed

\* bool redo()
Redo ==
    /\ Len(content_) + Len(clipboard_) <= MaxTextLen
    /\ op' = "redo"
    /\ arg' = <<>>
    /\ err' = ""
    /\ IF redo_stack_ = <<>>
       THEN /\ ret' = FALSE
            /\ UNCHANGED <<receiverVars, invokerVars, trail>>
       ELSE LET x == execute(Top(redo_stack_), Receiver)
            IN  /\ redo_stack_' = Pop(redo_stack_)
                /\ SetReceiver(x.r)
                /\ undo_stack_' = Append(undo_stack_, x.cmd)
                /\ trail' = Append(trail, Observable(Receiver))
                /\ ret' = TRUE
    /\ UNCHANGED executed

\* size_t undo_stack_size() const
UndoStackSize ==
    /\ op' = "undo_stack_size"
    /\ arg' = <<>>
    /\ ret' = Len(undo_stack_)
    /\ err' = ""
    /\ UNCHANGED <<receiverVars, invokerVars, executed, trail>>

\* size_t redo_stack_size() const
RedoStackSize ==
    /\ op' = "redo_stack_size"
    /\ arg' = <<>>
    /\ ret' = Len(redo_stack_)
    /\ err' = ""
    /\ UNCHANGED <<receiverVars, invokerVars, executed, trail>>

\* ------------------------------------------- command_invoker: the queue
QueueInit ==
    /\ command_queue_ = <<>>
    /\ draining = FALSE
    /\ queued = 0
    /\ enqueued = <<>>
    /\ drained = <<>>

\* A functional_command with a third argument has an execute_func that,
\* after adding args[1] to the counter, calls queue_command of the invoker
\* with a functional_command that adds args[3] and has no undo_func.
queue_command_calls(cmd) ==
    IF cmd.type = "functional_command" /\ Len(cmd.args) = 3
    THEN <<Command("functional_command", <<cmd.args[3], 0>>)>>
    ELSE <<>>

\* The commands a client queues for its receiver.
QueuedCommands(receiver) ==
    Commands(receiver) \cup
        (IF receiver = "counter"
         THEN {Command("functional_command", <<1, 1, 1>>)} ELSE {})

\* command_queue_.push(command)
push_in_front(queue, command) == <<command>> \o queue

push(queue, command) == Append(queue, command)

\* void queue_command(CommandType&& command)
QueueCommand ==
    \E command \in QueuedCommands(receiver_) :
        /\ queued < MaxQueued
        /\ queued' = queued + 1
        /\ op' = "queue_command"
        /\ arg' = <<command>>
        /\ command_queue_' = push(command_queue_, command)
        /\ enqueued' = Append(enqueued, command)
        /\ ret' = NULL
        /\ err' = ""
        /\ UNCHANGED <<receiverVars, invokerVars, executed, trail, draining, drained>>

\* void execute_queued_commands(): the call
ExecuteQueuedCommands ==
    /\ ~draining
    /\ draining' = TRUE
    /\ op' = "execute_queued_commands"
    /\ arg' = <<>>
    /\ ret' = NULL
    /\ err' = ""
    /\ enqueued' = SubSeq(enqueued, Len(drained) + 1, Len(enqueued))
    /\ drained' = <<>>
    /\ UNCHANGED <<receiverVars, invokerVars, executed, trail, command_queue_, queued>>

ExecuteQueued_recording ==
    /\ draining
    /\ command_queue_ # <<>>
    /\ LET command == Head(command_queue_)
           x == execute(command, Receiver)
           calls == queue_command_calls(command)
           recorded == has_can_undo(x.cmd) /\ can_undo(x.cmd)
       IN  /\ op' = "execute"
           /\ arg' = <<command>>
           /\ SetReceiver(x.r)
           /\ command_queue_' =
                  IF calls = <<>> THEN Tail(command_queue_)
                  ELSE push(Tail(command_queue_), calls[1])
           /\ enqueued' = enqueued \o calls
           /\ drained' = Append(drained, command)
           /\ undo_stack_' = IF recorded THEN Append(undo_stack_, x.cmd) ELSE undo_stack_
           /\ redo_stack_' = IF recorded THEN <<>> ELSE redo_stack_
           /\ trail' = IF recorded THEN Append(trail, Observable(Receiver))
                       ELSE IF Observable(x.r) = Observable(Receiver) THEN trail
                       ELSE <<>>
    /\ ret' = NULL
    /\ err' = ""
    /\ UNCHANGED <<executed, draining, queued>>

\* One iteration of the loop of execute_queued_commands: front, pop, and
\* cmd.execute() of the copy, which may call queue_command.
ExecuteQueued ==
    /\ draining
    /\ command_queue_ # <<>>
    /\ LET command == Head(command_queue_)
           x == execute(command, Receiver)
           calls == queue_command_calls(command)
       IN  /\ op' = "execute"
           /\ arg' = <<command>>
           /\ SetReceiver(x.r)
           /\ command_queue_' =
                  IF calls = <<>> THEN Tail(command_queue_)
                  ELSE push(Tail(command_queue_), calls[1])
           /\ enqueued' = enqueued \o calls
           /\ drained' = Append(drained, command)
           /\ trail' = IF Observable(x.r) = Observable(Receiver) THEN trail ELSE <<>>
    /\ ret' = NULL
    /\ err' = ""
    /\ UNCHANGED <<invokerVars, executed, draining, queued>>

\* execute_queued_commands returns when command_queue_.empty()
ExecuteQueuedCommandsReturn ==
    /\ draining
    /\ command_queue_ = <<>>
    /\ draining' = FALSE
    /\ op' = "execute_queued_commands returns"
    /\ arg' = <<>>
    /\ ret' = NULL
    /\ err' = ""
    /\ UNCHANGED <<receiverVars, invokerVars, executed, trail, command_queue_,
                   queued, enqueued, drained>>

\* size_t queued_command_count() const
QueuedCommandCount ==
    /\ ~draining
    /\ op' = "queued_command_count"
    /\ arg' = <<>>
    /\ ret' = Len(command_queue_)
    /\ err' = ""
    /\ UNCHANGED <<receiverVars, invokerVars, executed, trail, queueVars>>

CmdInit ==
    /\ receiver_ \in Receivers
    /\ ReceiverInit
    /\ InvokerInit
    /\ QueueInit

\* No command_invoker is in use.
CmdIdle ==
    /\ receiver_ = "document"
    /\ ReceiverInit
    /\ InvokerInit
    /\ QueueInit

\* ------------------------------------------------ node_counter_visitor
\* A node_counter_visitor is a tree_visitor<size_t> with a count_.
CounterInit == count_ = 0

\* result_type node_counter_visitor::visit(const ElementType& element):
\* count_++, then tree_visitor<size_t>::visit(element), whose traversal
\* calls this->visit on the children with this a tree_visitor<size_t>*, so
\* the visit of tree_visitor.
CounterVisit ==
    \E x \in Nodes :
        LET st == tv_visit([res |-> results_, vis |-> visited], x, mode_)
        IN  /\ Len(tv_applied) < MaxTreeVisits
            /\ count_ < MaxTreeVisits
            /\ op' = "node_counter_visitor::visit"
            /\ arg' = <<x>>
            /\ count_' = count_ + 1
            /\ results_' = st.res
            /\ visited' = st.vis
            /\ tv_applied' = Append(tv_applied, x)
            /\ ret' = count_'
            /\ UNCHANGED mode_

\* size_t get_total_count() const
GetTotalCount ==
    /\ op' = "get_total_count"
    /\ arg' = <<>>
    /\ ret' = count_
    /\ UNCHANGED <<tvVars, count_>>

\* void node_counter_visitor::reset()
CounterReset ==
    /\ op' = "reset"
    /\ arg' = <<>>
    /\ count_' = 0
    /\ ret' = NULL
    /\ UNCHANGED tvVars

\* ---------------------------------------------- complex_origami_builder
\* complex_origami_builder<int_leaf, string_leaf>: the components the client
\* passes and the post-build actions it registers.  The client names an
\* int_leaf a chapter and a string_leaf a title.  An action reads the
\* composite it is given.
Components == {<<"int_leaf", 10>>, <<"string_leaf", "Introduction">>}
ComponentName(c) == IF c[1] = "int_leaf" THEN "chapter1" ELSE "title1"
PostBuildActions == {"validate", "report"}

\* explicit complex_origami_builder(std::string root_name)
root_name_ == "Technical Documentation"

BuilderInit ==
    /\ components_ = <<>>
    /\ post_build_actions_ = <<>>
    /\ built = NULL
    /\ post_build_log = <<>>
    /\ configured = <<>>
    /\ registered = <<>>

\* struct component_config { name; factory; is_required }.  The factory is a
\* std::function: empty, or a closure holding what it returns when called.
component_config(name, component, required) ==
    [name |-> name,
     factory |-> [empty |-> FALSE, returns |-> component],
     is_required |-> required]

\* with_component(name, component, required): components_.push_back
with_component(configs, name, component, required) ==
    Append(configs, component_config(name, component, required))

\* complex_origami_builder& with_component(std::string name,
\*     ComponentType component, bool required = false)
WithComponent ==
    \E c \in Components, required \in BOOLEAN :
      LET name == ComponentName(c) IN
        /\ Len(components_) < MaxComponents
        /\ op' = "with_component"
        /\ arg' = <<name, c, required>>
        /\ components_' = with_component(components_, name, c, required)
        /\ configured' = Append(configured, c)
        /\ ret' = NULL /\ err' = ""
        /\ UNCHANGED <<post_build_actions_, built, post_build_log, registered>>

\* with_component_factory<ComponentType>(name, factory, required): the stored
\* factory returns ComponentType(factory()).
WithComponentFactory ==
    \E c \in Components, required \in BOOLEAN :
        LET name == ComponentName(c)
            ComponentType == c[1]
            factory == [empty |-> FALSE, returns |-> c[2]]
        IN  /\ Len(components_) < MaxComponents
            /\ op' = "with_component_factory"
            /\ arg' = <<name, c, required>>
            /\ components_' = with_component(components_, name,
                                  <<ComponentType, factory.returns>>, required)
            /\ configured' = Append(configured, c)
            /\ ret' = NULL /\ err' = ""
            /\ UNCHANGED <<post_build_actions_, built, post_build_log, registered>>

\* contains(component_name, args...): with one argument, with_component of
\* it; leaf has no constructor of another number of arguments.
Contains ==
    \E c \in Components :
      LET name == ComponentName(c) IN
        /\ Len(components_) < MaxComponents
        /\ op' = "contains"
        /\ arg' = <<name, c>>
        /\ components_' = with_component(components_, name, c, FALSE)
        /\ configured' = Append(configured, c)
        /\ ret' = NULL /\ err' = ""
        /\ UNCHANGED <<post_build_actions_, built, post_build_log, registered>>

\* requires_component(name, component): with_component(name, component, true)
RequiresComponent ==
    \E c \in Components :
      LET name == ComponentName(c) IN
        /\ Len(components_) < MaxComponents
        /\ op' = "requires_component"
        /\ arg' = <<name, c>>
        /\ components_' = with_component(components_, name, c, TRUE)
        /\ configured' = Append(configured, c)
        /\ ret' = NULL /\ err' = ""
        /\ UNCHANGED <<post_build_actions_, built, post_build_log, registered>>

\* with_post_build_action(action): post_build_actions_.emplace_back
WithPostBuildAction ==
    \E action \in PostBuildActions :
        /\ Len(post_build_actions_) < MaxActions
        /\ op' = "with_post_build_action"
        /\ arg' = <<action>>
        /\ post_build_actions_' = Append(post_build_actions_, action)
        /\ registered' = Append(registered, action)
        /\ ret' = NULL /\ err' = ""
        /\ UNCHANGED <<components_, built, post_build_log, configured>>

\* The second loop of build(): result->add(config.factory()) for every
\* config that has a factory, in the order of components_.
RECURSIVE add_components(_, _)
add_components(result, configs) ==
    IF configs = <<>> THEN result
    ELSE add_components(
             IF ~Head(configs).factory.empty
             THEN [result EXCEPT !.children = Append(@, Head(configs).factory.returns)]
             ELSE result,
             Tail(configs))

\* The third loop of build(): action(*result) for every action, in the order
\* of post_build_actions_.
run_actions(result, actions) ==
    [i \in 1..Len(actions) |-> <<actions[i], Len(result.children)>>]

\* std::unique_ptr<composite_type> build(), the actions run first
Build_running_actions_first ==
    LET missing == {i \in 1..Len(components_) :
                       components_[i].is_required /\ components_[i].factory.empty}
        empty == [name |-> root_name_, children |-> <<>>]
        result == add_components(empty, components_)
    IN  /\ op' = "build"
        /\ arg' = <<>>
        /\ ret' = NULL
        /\ IF missing # {}
           THEN /\ err' = "Required component not provided"
                /\ UNCHANGED <<built, post_build_log>>
           ELSE /\ err' = ""
                /\ built' = result
                /\ post_build_log' = run_actions(empty, post_build_actions_)
        /\ UNCHANGED <<components_, post_build_actions_, configured, registered>>

\* std::unique_ptr<composite_type> build()
Build ==
    LET missing == {i \in 1..Len(components_) :
                       components_[i].is_required /\ components_[i].factory.empty}
        result == add_components([name |-> root_name_, children |-> <<>>],
                                 components_)
    IN  /\ op' = "build"
        /\ arg' = <<>>
        /\ ret' = NULL
        /\ IF missing # {}
           THEN /\ err' = "Required component not provided"
                /\ UNCHANGED <<built, post_build_log>>
           ELSE /\ err' = ""
                /\ built' = result
                /\ post_build_log' = run_actions(result, post_build_actions_)
        /\ UNCHANGED <<components_, post_build_actions_, configured, registered>>

\* ----------------------------------------------------------- simple_state
\* simple_state<int>: the states the client uses, the name it registers
\* them with ("", the default argument), and the milliseconds that pass
\* between the entry of a state and its exit.
StateIDs == {0, 1}
StateNames == {""}
Durations == {100}

\* std::to_string(static_cast<int>(id))
to_string(id) == IF id = 0 THEN "0" ELSE "1"

\* An unordered_map is a function on the keys it holds; map[key] = v:
Assigned(map, key, v) == (key :> v) @@ map

\* map[key], value-initialised when the key is new
At(map, key, zero) == IF key \in DOMAIN map THEN map[key] ELSE zero

StateInit ==
    /\ current_state_ = NULL
    /\ state_names_ = <<>>
    /\ state_history_ = <<>>
    /\ enter_callbacks_ = {}
    /\ exit_callbacks_ = {}
    /\ transition_callback_ = FALSE
    /\ state_visit_count_ = <<>>
    /\ total_time_in_state_ = <<>>
    /\ callbacks = <<>>
    /\ transitions = <<>>

\* state_info(state_id, state_name): no duration yet
state_info(state_id, state_name) ==
    [id |-> state_id, name |-> state_name, has_duration |-> FALSE, duration |-> 0]

mark_exit_without_duration(info, d) == info

\* void state_info::mark_exit(), d milliseconds after entered_at
mark_exit(info, d) == [info EXCEPT !.has_duration = TRUE, !.duration = d]

\* std::string get_state_name(StateID state) const
get_state_name(state) ==
    IF state \in DOMAIN state_names_ THEN state_names_[state] ELSE "Unknown State"

\* void register_state(StateID id, std::string name = "")
RegisterState ==
    \E id \in StateIDs, name \in StateNames :
        /\ op' = "register_state"
        /\ arg' = <<id, name>>
        /\ state_names_' = Assigned(state_names_, id,
                                    IF name = "" THEN to_string(id) ELSE name)
        /\ state_visit_count_' = Assigned(state_visit_count_, id, 0)
        /\ total_time_in_state_' = Assigned(total_time_in_state_, id, 0)
        /\ callbacks' = <<>>
        /\ ret' = NULL /\ err' = ""
        /\ UNCHANGED <<current_state_, state_history_, enter_callbacks_,
                       exit_callbacks_, transition_callback_, transitions>>

\* The history and the times after the last entry was closed for the state
\* left, d milliseconds after its entry.  only_of_state: the entry is closed
\* only if its id is the state left (transition_to), or whatever its id
\* (reset).
close_last(state, d, only_of_state) ==
    LET n == Len(state_history_)
        closes == /\ n > 0
                  /\ ~state_history_[n].has_duration
                  /\ (only_of_state => state_history_[n].id = state)
        closed == mark_exit(state_history_[n], d)
    IN  IF closes
        THEN [history |-> [state_history_ EXCEPT ![n] = closed],
              times |-> Assigned(total_time_in_state_, state,
                            At(total_time_in_state_, state, 0) + closed.duration)]
        ELSE [history |-> state_history_, times |-> total_time_in_state_]

\* void transition_to(StateID new_state), the transition callback first
TransitionTo_transition_callback_first ==
    \E new_state \in StateIDs, d \in Durations :
        LET had_previous_state == current_state_ # NULL
            old_state == current_state_
            left == IF had_previous_state
                    THEN close_last(old_state, d, TRUE)
                    ELSE [history |-> state_history_, times |-> total_time_in_state_]
        IN  /\ Len(transitions) < MaxTransitions
            /\ op' = "transition_to"
            /\ arg' = <<new_state>>
            /\ transitions' = Append(transitions, new_state)
            /\ current_state_' = new_state
            /\ state_visit_count_' = Assigned(state_visit_count_, new_state,
                                         At(state_visit_count_, new_state, 0) + 1)
            /\ total_time_in_state_' = left.times
            /\ state_history_' = Append(left.history,
                                        state_info(new_state, get_state_name(new_state)))
            /\ callbacks' =
                   (IF transition_callback_ /\ had_previous_state
                    THEN <<<<"transition", old_state, new_state>>>> ELSE <<>>)
                   \o (IF had_previous_state /\ old_state \in exit_callbacks_
                       THEN <<<<"exit", old_state>>>> ELSE <<>>)
                   \o (IF new_state \in enter_callbacks_
                       THEN <<<<"enter", new_state>>>> ELSE <<>>)
            /\ ret' = NULL /\ err' = ""
            /\ UNCHANGED <<state_names_, enter_callbacks_, exit_callbacks_,
                           transition_callback_>>

\* void transition_to(StateID new_state)
TransitionTo ==
    \E new_state \in StateIDs, d \in Durations :
        LET had_previous_state == current_state_ # NULL
            old_state == current_state_
            left == IF had_previous_state
                    THEN close_last(old_state, d, TRUE)
                    ELSE [history |-> state_history_, times |-> total_time_in_state_]
        IN  /\ Len(transitions) < MaxTransitions
            /\ op' = "transition_to"
            /\ arg' = <<new_state>>
            /\ transitions' = Append(transitions, new_state)
            /\ current_state_' = new_state
            /\ state_visit_count_' = Assigned(state_visit_count_, new_state,
                                         At(state_visit_count_, new_state, 0) + 1)
            /\ total_time_in_state_' = left.times
            /\ state_history_' = Append(left.history,
                                        state_info(new_state, get_state_name(new_state)))
            /\ callbacks' =
                   (IF had_previous_state /\ old_state \in exit_callbacks_
                    THEN <<<<"exit", old_state>>>> ELSE <<>>)
                   \o (IF new_state \in enter_callbacks_
                       THEN <<<<"enter", new_state>>>> ELSE <<>>)
                   \o (IF transition_callback_ /\ had_previous_state
                       THEN <<<<"transition", old_state, new_state>>>> ELSE <<>>)
            /\ ret' = NULL /\ err' = ""
            /\ UNCHANGED <<state_names_, enter_callbacks_, exit_callbacks_,
                           transition_callback_>>

\* std::optional<StateID> get_current_state() const
GetCurrentState ==
    /\ op' = "get_current_state"
    /\ arg' = <<>>
    /\ ret' = current_state_
    /\ err' = ""
    /\ callbacks' = <<>>
    /\ UNCHANGED <<current_state_, state_names_, state_history_, enter_callbacks_,
                   exit_callbacks_, transition_callback_, state_visit_count_,
                   total_time_in_state_, transitions>>

\* void on_enter(StateID state, enter_callback callback)
OnEnter ==
    \E state \in StateIDs :
        /\ op' = "on_enter"
        /\ arg' = <<state>>
        /\ enter_callbacks_' = enter_callbacks_ \cup {state}
        /\ callbacks' = <<>>
        /\ ret' = NULL /\ err' = ""
        /\ UNCHANGED <<current_state_, state_names_, state_history_,
                       exit_callbacks_, transition_callback_, state_visit_count_,
                       total_time_in_state_, transitions>>

\* void on_exit(StateID state, exit_callback callback)
OnExit ==
    \E state \in StateIDs :
        /\ op' = "on_exit"
        /\ arg' = <<state>>
        /\ exit_callbacks_' = exit_callbacks_ \cup {state}
        /\ callbacks' = <<>>
        /\ ret' = NULL /\ err' = ""
        /\ UNCHANGED <<current_state_, state_names_, state_history_,
                       enter_callbacks_, transition_callback_, state_visit_count_,
                       total_time_in_state_, transitions>>

\* void on_transition(transition_callback callback)
OnTransition ==
    /\ op' = "on_transition"
    /\ arg' = <<>>
    /\ transition_callback_' = TRUE
    /\ callbacks' = <<>>
    /\ ret' = NULL /\ err' = ""
    /\ UNCHANGED <<current_state_, state_names_, state_history_,
                   enter_callbacks_, exit_callbacks_, state_visit_count_,
                   total_time_in_state_, transitions>>

\* size_t get_visit_count(StateID state) const
GetVisitCount ==
    \E state \in StateIDs :
        /\ op' = "get_visit_count"
        /\ arg' = <<state>>
        /\ ret' = IF state \in DOMAIN state_visit_count_
                  THEN state_visit_count_[state] ELSE 0
        /\ err' = ""
        /\ callbacks' = <<>>
        /\ UNCHANGED <<current_state_, state_names_, state_history_,
                       enter_callbacks_, exit_callbacks_, transition_callback_,
                       state_visit_count_, total_time_in_state_, transitions>>

\* void simple_state::reset()
StateReset ==
    \E d \in Durations :
        LET left == IF current_state_ # NULL
                    THEN close_last(current_state_, d, FALSE)
                    ELSE [history |-> state_history_, times |-> total_time_in_state_]
        IN  /\ op' = "reset"
            /\ arg' = <<>>
            /\ callbacks' = IF current_state_ # NULL /\ current_state_ \in exit_callbacks_
                            THEN <<<<"exit", current_state_>>>> ELSE <<>>
            /\ state_history_' = left.history
            /\ total_time_in_state_' = left.times
            /\ current_state_' = NULL
            /\ ret' = NULL /\ err' = ""
            /\ UNCHANGED <<state_names_, enter_callbacks_, exit_callbacks_,
                           transition_callback_, state_visit_count_, transitions>>

\* ------------------------------------------- the classes not in use
\* The objects of the classes a client does not use stay as constructed.
LaterIdle ==
    /\ arg = <<>>
    /\ VvInit
    /\ CompInit
    /\ ObsIdle
    /\ CmdIdle
    /\ CounterInit
    /\ BuilderInit
    /\ StateInit

\* ------------------------------------------------- the cursors' clients

\* The client holds a tree_iterator over the tree and a default-constructed
\* origami_iterator, or an origami_iterator at the root of the tree and a
\* tree_iterator constructed with a null root.
Init ==
    /\ TreeInit
    /\ \E client \in {<<0, NULL>>, <<NULL, 0>>} :
         root_ = client[1] /\ current_ptr_ = client[2]
    /\ IterInit /\ OrigamiInit /\ AccInit /\ TvInit
    /\ LaterIdle

Next ==
    \/ HasNext /\ UNCHANGED <<treeVars, origamiVars, accVars, tvVars, laterVars>>
    \/ Next_ /\ UNCHANGED <<treeVars, origamiVars, accVars, tvVars, laterVars>>
    \/ Reset /\ UNCHANGED <<treeVars, origamiVars, accVars, tvVars, laterVars>>
    \/ SetTraversalOrder /\ UNCHANGED <<treeVars, origamiVars, accVars, tvVars, laterVars>>
    \/ ForEach /\ UNCHANGED <<treeVars, origamiVars, accVars, tvVars, laterVars>>
    \/ Increment /\ UNCHANGED <<treeVars, cursorVars, yielded, accVars, tvVars, laterVars>>
    \/ Dereference /\ UNCHANGED <<treeVars, cursorVars, yielded, accVars, tvVars, laterVars>>

Spec == Init /\ [][Next]_vars

\* ------------------------------------------------ the visitors' clients
\* No cursor is in use: a tree_iterator with a null root and a
\* default-constructed origami_iterator.
NoCursor ==
    /\ root_ = NULL /\ current_ptr_ = NULL
    /\ LET c == tree_iterator(root_, "depth_first_preorder")
       IN  order_ = c.order /\ dfs_stack_ = c.dfs /\ bfs_queue_ = c.bfs /\ current_ = c.cur
    /\ traversal_stack_ = <<>>
    /\ yielded = <<>> /\ err = "" /\ pre_len = 0

InitAccumulate ==
    /\ TreeInit /\ NoCursor /\ AccInit /\ TvInit /\ LaterIdle
    /\ op = "accumulate_visitor" /\ ret = NULL

NextAccumulate ==
    \/ Visit /\ UNCHANGED <<treeVars, cursorVars, yielded, err, pre_len, origamiVars, tvVars, laterVars>>
    \/ GetResult /\ UNCHANGED <<treeVars, cursorVars, yielded, err, pre_len, origamiVars, tvVars, laterVars>>
    \/ AccReset /\ UNCHANGED <<treeVars, cursorVars, yielded, err, pre_len, origamiVars, tvVars, laterVars>>

SpecAccumulate == InitAccumulate /\ [][NextAccumulate]_vars

InitTreeVisitor ==
    /\ TreeInit /\ NoCursor /\ AccInit /\ TvInit /\ LaterIdle
    /\ op = "tree_visitor" /\ ret = NULL

NextTreeVisitor ==
    \/ SetTraversalMode /\ UNCHANGED <<treeVars, cursorVars, yielded, err, pre_len, origamiVars, accVars, laterVars>>
    \/ TreeVisit /\ UNCHANGED <<treeVars, cursorVars, yielded, err, pre_len, origamiVars, accVars, laterVars>>
    \/ ClearResults /\ UNCHANGED <<treeVars, cursorVars, yielded, err, pre_len, origamiVars, accVars, laterVars>>
    \/ CounterVisit /\ UNCHANGED <<treeVars, cursorVars, yielded, err, pre_len, origamiVars, accVars, vvVars, compVars, obsVars, cmdVars, builderVars, stateVars>>
    \/ GetTotalCount /\ UNCHANGED <<treeVars, cursorVars, yielded, err, pre_len, origamiVars, accVars, vvVars, compVars, obsVars, cmdVars, builderVars, stateVars>>
    \/ CounterReset /\ UNCHANGED <<treeVars, cursorVars, yielded, err, pre_len, origamiVars, accVars, vvVars, compVars, obsVars, cmdVars, builderVars, stateVars>>

SpecTreeVisitor == InitTreeVisitor /\ [][NextTreeVisitor]_vars

\* ----------------------------------------- the variant_visitor's client
\* No tree is in use: a root composite without children.
NoTree ==
    /\ children = [x \in {0} |-> <<>>]
    /\ kind = [x \in {0} |-> "composite"]
    /\ value = [x \in {0} |-> 0]

\* What the client of another class leaves alone: the tree, the cursors and
\* the tree visitors.
cursorIdleVars == <<cursorVars, yielded, pre_len, origamiVars, accVars, tvVars>>
origamiIdleVars == <<treeVars, cursorIdleVars>>

OrigamiIdle == NoTree /\ NoCursor /\ AccInit /\ TvInit

InitVariantVisitor ==
    /\ OrigamiIdle
    /\ VvInit /\ CompInit /\ ObsIdle /\ CmdIdle /\ CounterInit /\ BuilderInit /\ StateInit
    /\ op = "variant_visitor" /\ arg = <<>> /\ ret = NULL

NextVariantVisitor ==
    \/ RegisterVisitor /\ UNCHANGED <<origamiIdleVars, compVars, obsVars, cmdVars, count_, builderVars, stateVars>>
    \/ RegisterVisitorForType /\ UNCHANGED <<origamiIdleVars, compVars, obsVars, cmdVars, count_, builderVars, stateVars>>
    \/ VvVisit /\ UNCHANGED <<origamiIdleVars, compVars, obsVars, cmdVars, count_, builderVars, stateVars>>

SpecVariantVisitor == InitVariantVisitor /\ [][NextVariantVisitor]_vars

\* ------------------------------------------------- the builder's client
\* The client configures a complex_origami_builder and builds with it.
InitBuilder ==
    /\ OrigamiIdle
    /\ VvInit /\ CompInit /\ ObsIdle /\ CmdIdle /\ CounterInit /\ StateInit
    /\ BuilderInit
    /\ op = "complex_origami_builder" /\ arg = <<>> /\ ret = NULL

NextBuilder ==
    \/ WithComponent /\ UNCHANGED <<origamiIdleVars, vvVars, compVars, obsVars, cmdVars, count_, stateVars>>
    \/ WithComponentFactory /\ UNCHANGED <<origamiIdleVars, vvVars, compVars, obsVars, cmdVars, count_, stateVars>>
    \/ Contains /\ UNCHANGED <<origamiIdleVars, vvVars, compVars, obsVars, cmdVars, count_, stateVars>>
    \/ RequiresComponent /\ UNCHANGED <<origamiIdleVars, vvVars, compVars, obsVars, cmdVars, count_, stateVars>>
    \/ WithPostBuildAction /\ UNCHANGED <<origamiIdleVars, vvVars, compVars, obsVars, cmdVars, count_, stateVars>>
    \/ Build /\ UNCHANGED <<origamiIdleVars, vvVars, compVars, obsVars, cmdVars, count_, stateVars>>

SpecBuilder == InitBuilder /\ [][NextBuilder]_vars

\* ----------------------------------------------- the composite's client
\* The client constructs a composite and adds to it, changes it and clones it.
InitComposite ==
    /\ OrigamiIdle
    /\ VvInit /\ CompInit /\ ObsIdle /\ CmdIdle /\ CounterInit /\ BuilderInit /\ StateInit
    /\ op = "composite" /\ arg = <<>> /\ ret = NULL

NextComposite ==
    \/ Add /\ UNCHANGED <<cursorIdleVars, vvVars, obsVars, cmdVars, count_, builderVars, stateVars>>
    \/ AddCopy /\ UNCHANGED <<cursorIdleVars, vvVars, obsVars, cmdVars, count_, builderVars, stateVars>>
    \/ Emplace /\ UNCHANGED <<cursorIdleVars, vvVars, obsVars, cmdVars, count_, builderVars, stateVars>>
    \/ SetName /\ UNCHANGED <<cursorIdleVars, vvVars, obsVars, cmdVars, count_, builderVars, stateVars>>
    \/ SetValue /\ UNCHANGED <<cursorIdleVars, vvVars, obsVars, cmdVars, count_, builderVars, stateVars>>
    \/ Clone /\ UNCHANGED <<cursorIdleVars, vvVars, obsVars, cmdVars, count_, builderVars, stateVars>>

SpecComposite == InitComposite /\ [][NextComposite]_vars

\* ------------------------------------ the subject's and signal's client
\* The client constructs a subject, whose remove_observer does not throw,
\* or a signal.
InitObserver ==
    /\ OrigamiIdle
    /\ VvInit /\ CompInit /\ CmdIdle /\ CounterInit /\ BuilderInit /\ StateInit
    /\ ObsInit
    /\ op = client_ /\ arg = <<>> /\ ret = NULL

NextObserver ==
    \/ AddObserver /\ UNCHANGED <<origamiIdleVars, vvVars, compVars, client_, signalVars, cmdVars, count_, builderVars, stateVars>>
    \/ RemoveObserver /\ UNCHANGED <<origamiIdleVars, vvVars, compVars, client_, signalVars, cmdVars, count_, builderVars, stateVars>>
    \/ NotifyAll /\ UNCHANGED <<origamiIdleVars, vvVars, compVars, client_, signalVars, cmdVars, count_, builderVars, stateVars>>
    \/ NotifyObserver /\ UNCHANGED <<origamiIdleVars, vvVars, compVars, client_, signalVars, cmdVars, count_, builderVars, stateVars>>
    \/ NotifyAllReturn /\ UNCHANGED <<origamiIdleVars, vvVars, compVars, client_, signalVars, cmdVars, count_, builderVars, stateVars>>
    \/ ObserverCount /\ UNCHANGED <<origamiIdleVars, vvVars, compVars, client_, signalVars, cmdVars, count_, builderVars, stateVars>>
    \/ ClearObservers /\ UNCHANGED <<origamiIdleVars, vvVars, compVars, client_, signalVars, cmdVars, count_, builderVars, stateVars>>
    \/ AutoObserverCtor /\ UNCHANGED <<origamiIdleVars, vvVars, compVars, client_, signalVars, cmdVars, count_, builderVars, stateVars>>
    \/ AutoObserverDtor({FALSE}) /\ UNCHANGED <<origamiIdleVars, vvVars, compVars, client_, signalVars, cmdVars, count_, builderVars, stateVars>>
    \/ Connect /\ UNCHANGED <<origamiIdleVars, vvVars, compVars, client_, subjectVars, cmdVars, count_, builderVars, stateVars>>
    \/ Disconnect /\ UNCHANGED <<origamiIdleVars, vvVars, compVars, client_, subjectVars, cmdVars, count_, builderVars, stateVars>>
    \/ DisconnectAll /\ UNCHANGED <<origamiIdleVars, vvVars, compVars, client_, subjectVars, cmdVars, count_, builderVars, stateVars>>
    \/ Emit /\ UNCHANGED <<origamiIdleVars, vvVars, compVars, client_, subjectVars, cmdVars, count_, builderVars, stateVars>>
    \/ EmitSlot /\ UNCHANGED <<origamiIdleVars, vvVars, compVars, client_, subjectVars, cmdVars, count_, builderVars, stateVars>>
    \/ EmitReturn /\ UNCHANGED <<origamiIdleVars, vvVars, compVars, client_, subjectVars, cmdVars, count_, builderVars, stateVars>>
    \/ ConnectionCount /\ UNCHANGED <<origamiIdleVars, vvVars, compVars, client_, subjectVars, cmdVars, count_, builderVars, stateVars>>

SpecObserver == InitObserver /\ [][NextObserver]_vars

\* The client constructs an object of a SubjectType of its own, whose
\* remove_observer may throw, and auto_observers of it.
InitAutoObserver ==
    /\ OrigamiIdle
    /\ VvInit /\ CompInit /\ CmdIdle /\ CounterInit /\ BuilderInit /\ StateInit
    /\ client_ = "subject" /\ SubjectInit /\ SignalInit
    /\ op = "SubjectType" /\ arg = <<>> /\ ret = NULL

NextAutoObserver ==
    \/ AddObserver /\ UNCHANGED <<origamiIdleVars, vvVars, compVars, client_, signalVars, cmdVars, count_, builderVars, stateVars>>
    \/ ObserverCount /\ UNCHANGED <<origamiIdleVars, vvVars, compVars, client_, signalVars, cmdVars, count_, builderVars, stateVars>>
    \/ AutoObserverCtor /\ UNCHANGED <<origamiIdleVars, vvVars, compVars, client_, signalVars, cmdVars, count_, builderVars, stateVars>>
    \/ AutoObserverDtor(BOOLEAN) /\ UNCHANGED <<origamiIdleVars, vvVars, compVars, client_, signalVars, cmdVars, count_, builderVars, stateVars>>

SpecAutoObserver == InitAutoObserver /\ [][NextAutoObserver]_vars

\* ---------------------------------------- the command_invoker's client
\* The client has a document, a lightbulb or a counter, and a
\* command_invoker of the commands for it.
InitCommand ==
    /\ OrigamiIdle
    /\ VvInit /\ CompInit /\ ObsIdle /\ CounterInit /\ BuilderInit /\ StateInit
    /\ CmdInit
    /\ op = "command_invoker" /\ arg = <<>> /\ ret = NULL

NextCommand ==
    \/ ExecuteCommand /\ UNCHANGED <<origamiIdleVars, vvVars, compVars, obsVars, receiver_, queueVars, count_, builderVars, stateVars>>
    \/ Undo /\ UNCHANGED <<origamiIdleVars, vvVars, compVars, obsVars, receiver_, queueVars, count_, builderVars, stateVars>>
    \/ Redo /\ UNCHANGED <<origamiIdleVars, vvVars, compVars, obsVars, receiver_, queueVars, count_, builderVars, stateVars>>
    \/ UndoStackSize /\ UNCHANGED <<origamiIdleVars, vvVars, compVars, obsVars, receiver_, queueVars, count_, builderVars, stateVars>>
    \/ RedoStackSize /\ UNCHANGED <<origamiIdleVars, vvVars, compVars, obsVars, receiver_, queueVars, count_, builderVars, stateVars>>

SpecCommand == InitCommand /\ [][NextCommand]_vars

\* --------------------------------------- the command queue's client
\* The client of a command_invoker that also queues commands and has the
\* queue executed.  While execute_queued_commands runs, the calls the
\* invoker gets are those of the commands it executes.  The client makes
\* MaxCommands commands in all.
InitCommandQueue ==
    /\ OrigamiIdle
    /\ VvInit /\ CompInit /\ ObsIdle /\ CounterInit /\ BuilderInit /\ StateInit
    /\ CmdInit
    /\ op = "command_invoker" /\ arg = <<>> /\ ret = NULL

NextCommandQueue ==
    \/ ~draining /\ executed + queued < MaxCommands /\ ExecuteCommand /\ UNCHANGED <<origamiIdleVars, vvVars, compVars, obsVars, receiver_, queueVars, count_, builderVars, stateVars>>
    \/ ~draining /\ Undo /\ UNCHANGED <<origamiIdleVars, vvVars, compVars, obsVars, receiver_, queueVars, count_, builderVars, stateVars>>
    \/ ~draining /\ Redo /\ UNCHANGED <<origamiIdleVars, vvVars, compVars, obsVars, receiver_, queueVars, count_, builderVars, stateVars>>
    \/ ~draining /\ RedoStackSize /\ UNCHANGED <<origamiIdleVars, vvVars, compVars, obsVars, receiver_, queueVars, count_, builderVars, stateVars>>
    \/ ~draining /\ executed + queued < MaxCommands /\ QueueCommand /\ UNCHANGED <<origamiIdleVars, vvVars, compVars, obsVars, receiver_, count_, builderVars, stateVars>>
    \/ ExecuteQueuedCommands /\ UNCHANGED <<origamiIdleVars, vvVars, compVars, obsVars, receiver_, count_, builderVars, stateVars>>
    \/ ExecuteQueued /\ UNCHANGED <<origamiIdleVars, vvVars, compVars, obsVars, receiver_, count_, builderVars, stateVars>>
    \/ ExecuteQueuedCommandsReturn /\ UNCHANGED <<origamiIdleVars, vvVars, compVars, obsVars, receiver_, count_, builderVars, stateVars>>
    \/ QueuedCommandCount /\ UNCHANGED <<origamiIdleVars, vvVars, compVars, obsVars, receiver_, count_, builderVars, stateVars>>

SpecCommandQueue == InitCommandQueue /\ [][NextCommandQueue]_vars

\* --------------------------------------------- the simple_state's client
\* The client registers states and callbacks, makes transitions and resets.
\* The callbacks call nothing of the simple_state.
InitSimpleState ==
    /\ OrigamiIdle
    /\ VvInit /\ CompInit /\ ObsIdle /\ CmdIdle /\ CounterInit /\ BuilderInit
    /\ StateInit
    /\ op = "simple_state" /\ arg = <<>> /\ ret = NULL

NextSimpleState ==
    \/ RegisterState /\ UNCHANGED <<origamiIdleVars, vvVars, compVars, obsVars, cmdVars, count_, builderVars>>
    \/ TransitionTo /\ UNCHANGED <<origamiIdleVars, vvVars, compVars, obsVars, cmdVars, count_, builderVars>>
    \/ GetCurrentState /\ UNCHANGED <<origamiIdleVars, vvVars, compVars, obsVars, cmdVars, count_, builderVars>>
    \/ OnEnter /\ UNCHANGED <<origamiIdleVars, vvVars, compVars, obsVars, cmdVars, count_, builderVars>>
    \/ OnExit /\ UNCHANGED <<origamiIdleVars, vvVars, compVars, obsVars, cmdVars, count_, builderVars>>
    \/ OnTransition /\ UNCHANGED <<origamiIdleVars, vvVars, compVars, obsVars, cmdVars, count_, builderVars>>
    \/ GetVisitCount /\ UNCHANGED <<origamiIdleVars, vvVars, compVars, obsVars, cmdVars, count_, builderVars>>
    \/ StateReset /\ UNCHANGED <<origamiIdleVars, vvVars, compVars, obsVars, cmdVars, count_, builderVars>>

SpecSimpleState == InitSimpleState /\ [][NextSimpleState]_vars

\* ------------------------------------------- tree relations (for the claims)
\* The node whose children_ holds x.
Parent(x) == CHOOSE y \in Nodes : x \in Range(children[y])

RECURSIVE Depth(_)
Depth(x) == IF x = 0 THEN 0 ELSE 1 + Depth(Parent(x))

\* a is x or an ancestor of x
RECURSIVE InSubtree(_, _)
InSubtree(x, a) ==
    IF x = a THEN TRUE
    ELSE IF x = 0 THEN FALSE
    ELSE InSubtree(Parent(x), a)

\* the nodes below a
Below(a) == {x \in Nodes : x # a /\ InSubtree(x, a)}

\* a stands before b in the children of their common parent
SiblingBefore(a, b) ==
    /\ a # 0 /\ b # 0
    /\ Parent(a) = Parent(b)
    /\ Pos(children[Parent(a)], a) < Pos(children[Parent(b)], b)

\* the sum of the leaves below a
LeafSum(a) == SumValues({x \in Below(a) : kind[x] = "leaf"})

\* x was yielded, and before y or y not yet
YieldedBefore(x, y) ==
    /\ x \in Range(yielded)
    /\ y \in Range(yielded) => Pos(yielded, x) < Pos(yielded, y)

Exhausted == ~has_next(Cursor)

\* ------------------------------------------------------------- claims
\* C1: a depth_first_preorder tree_iterator yields, until has_next() is
\* false, exactly the nodes below the root, each once, a node before its
\* children, the children of a node left to right, and the whole subtree
\* of a node before the node's next sibling.
C1_PreorderTraversal ==
    (root_ # NULL /\ order_ = "depth_first_preorder") =>
        /\ NoDup(yielded)
        /\ Range(yielded) \subseteq Below(root_)
        /\ Exhausted => Range(yielded) = Below(root_)
        /\ \A x \in Range(yielded) :
             /\ Parent(x) # root_ => YieldedBefore(Parent(x), x)
             /\ \A a \in Nodes : SiblingBefore(a, x) =>
                  /\ YieldedBefore(a, x)
                  /\ \A d \in Below(a) : YieldedBefore(d, x)

C1_Witness ==
    /\ root_ # NULL /\ order_ = "depth_first_preorder"
    /\ op = "next" /\ Exhausted /\ Len(yielded) >= 3
    /\ \E a, b \in Range(yielded) : SiblingBefore(a, b) /\ Below(a) # {}

\* C2: a breadth_first tree_iterator yields every node below the root
\* once, every node of depth d before any node of depth d+1, and the nodes
\* of one depth left to right: siblings in child order, children of an
\* earlier-yielded composite before those of a later-yielded one.
C2_BreadthFirstTraversal ==
    (root_ # NULL /\ order_ = "breadth_first") =>
        /\ NoDup(yielded)
        /\ Range(yielded) \subseteq Below(root_)
        /\ Exhausted => Range(yielded) = Below(root_)
        /\ \A x \in Range(yielded) :
             \A a \in Below(root_) :
               /\ Depth(a) < Depth(x) => YieldedBefore(a, x)
               /\ SiblingBefore(a, x) => YieldedBefore(a, x)
               /\ ( /\ Depth(a) = Depth(x)
                    /\ Parent(a) # Parent(x)
                    /\ YieldedBefore(Parent(a), Parent(x)) ) => YieldedBefore(a, x)

C2_Witness ==
    /\ root_ # NULL /\ order_ = "breadth_first"
    /\ op = "next" /\ Exhausted
    /\ \E a, b \in Range(yielded) :
         Depth(a) = 2 /\ Depth(b) = 2 /\ Parent(a) # Parent(b)

\* C3: a depth_first_postorder tree_iterator yields a composite only
\* after every node below that composite has been yielded.
C3_PostorderChildrenFirst ==
    (root_ # NULL /\ order_ = "depth_first_postorder") =>
        \A x \in Range(yielded) :
            kind[x] = "composite" => \A d \in Below(x) : YieldedBefore(d, x)

\* the container has_next() looks at under the selected order
Pending == IF order_ = "breadth_first" THEN bfs_queue_ ELSE dfs_stack_

\* C4: has_next() returns false exactly when the pending container of the
\* selected order (the DFS stack for both depth-first orders, the BFS
\* queue for breadth_first) is empty, and the call leaves the cursor as
\* it was.
C4_HasNextIffPending ==
    /\ [](op = "has_next" => (ret = 0 <=> Pending = <<>>))
    /\ [][op' = "has_next" =>
            /\ ret' = (IF Pending = <<>> THEN 0 ELSE 1)
            /\ UNCHANGED <<cursorVars, yielded>>]_vars

C4_Witness ==
    /\ op = "has_next" /\ ret = 0
    /\ order_ = "breadth_first" /\ Len(yielded) >= 2

\* C5: next() on a tree_iterator whose has_next() is false throws and
\* returns nothing, a cursor just made over a composite without children
\* is in that state at once, in every order, and operator* of an
\* origami_iterator that operator++ has moved past its last element throws.
C5_ExhaustedCursorThrows ==
    /\ []((op = "tree_iterator" /\ root_ # NULL /\ children[root_] = <<>>)
            => ~has_next(Cursor))
    /\ [][(op' = "next" /\ ~has_next(Cursor)) =>
            /\ err' = "No more elements to iterate"
            /\ ret' = NULL
            /\ UNCHANGED <<cursorVars, yielded>>]_vars
    /\ [][(op' = "operator++" /\ current_ptr_ # NULL /\ children[current_ptr_] = <<>>)
            => current_ptr_' = NULL]_vars
    /\ [][(op' = "operator*" /\ current_ptr_ = NULL) =>
            /\ err' = "Dereferencing null iterator"
            /\ ret' = NULL]_vars

C5_Witness ==
    /\ op = "next" /\ err = "No more elements to iterate"
    /\ root_ # NULL /\ children[root_] = <<>> /\ yielded = <<>>

\* a new cursor of the given order, after k calls of next()
RECURSIVE FreshAfter(_, _)
FreshAfter(order, k) ==
    IF k = 0 THEN [c |-> tree_iterator(root_, order), seen |-> <<>>]
    ELSE LET r == FreshAfter(order, k - 1)
             d == next(r.c)
         IN  [c |-> d, seen |-> Append(r.seen, d.cur)]

\* C6: whatever next(), reset(), set_traversal_order() and for_each()
\* calls a cursor has gone through, the nodes it has yielded since it was
\* last restarted, and what it will yield from here, are those of a new
\* cursor of the same order over the same tree after as many next() calls.
C6_RepeatableTraversal ==
    LET r == FreshAfter(order_, Len(yielded))
    IN  yielded = r.seen /\ Cursor = r.c

C6_Witness ==
    /\ op = "reset" /\ pre_len >= 2 /\ has_next(Cursor)
    /\ order_ = "depth_first_preorder"

\* C8: for_each over a new pre-order or breadth-first cursor, applying an
\* accumulate_visitor to every node it is handed, leaves the visitor with
\* the sum of the leaves of the tree.
C8_ForEachGivesLeafSum ==
    ( /\ op = "for_each" /\ pre_len = 0 /\ root_ # NULL
      /\ order_ \in {"depth_first_preorder", "breadth_first"} )
        => ret = LeafSum(root_)

\* C7: a new accumulate_visitor applied to a composite holds the sum of
\* all leaves below that composite, nested composites included, each leaf
\* once; the composites add nothing themselves.
C7_AccumulateSumsLeaves ==
    \A x \in Nodes :
        (applied = <<x>> /\ kind[x] = "composite") =>
            /\ accumulated_value_ = LeafSum(x)
            /\ op = "visit" => ret = LeafSum(x)

C7_Witness ==
    /\ applied = <<0>> /\ op = "visit"
    /\ \E a, b \in Nodes : /\ kind[a] = "leaf" /\ Depth(a) = 1
                           /\ kind[b] = "leaf" /\ Depth(b) = 2
    /\ accumulated_value_ >= 30

\* the leaves a and b lie in the subtrees of two children of one
\* composite, a's before b's: a comes before b in pre-order
PreorderBefore(a, b) ==
    \E sa, sb \in Nodes :
        SiblingBefore(sa, sb) /\ InSubtree(a, sa) /\ InSubtree(b, sb)

\* C9: a new tree_visitor applied to a composite visits every node of the
\* subtree exactly once, in the order of its traversal_mode, so that
\* results_ lists the leaves of the subtree once each, in pre-order by
\* default and in level order under breadth_first.
C9_TreeVisitorOrder ==
    \A x \in Nodes :
        (op = "visit" /\ tv_applied = <<x>> /\ kind[x] = "composite") =>
            /\ NoDup(visited)
            /\ Range(visited) = Below(x) \cup {x}
            /\ NoDup(results_)
            /\ Range(results_) = {y \in Below(x) : kind[y] = "leaf"}
            /\ mode_ = "depth_first_preorder" =>
                 \A a, b \in Range(results_) :
                    PreorderBefore(a, b) => Pos(results_, a) < Pos(results_, b)
            /\ mode_ = "breadth_first" =>
                 \A a, b \in Range(results_) :
                    Depth(a) < Depth(b) => Pos(results_, a) < Pos(results_, b)

\* C10: get_result() leaves the visitor as it is and returns
\* accumulated_value_, so consecutive reads agree; accumulated_value_
\* changes only in visit() and reset(), and reset() makes it ValueType{}.
C10_GetResultIdempotent ==
    /\ [][op' = "get_result" =>
            /\ UNCHANGED accVars
            /\ ret' = accumulated_value_]_vars
    /\ [][(op = "get_result" /\ op' = "get_result") => ret' = ret]_vars
    /\ [][accumulated_value_' # accumulated_value_ => op' \in {"visit", "reset"}]_vars
    /\ [](op = "reset" => accumulated_value_ = 0)

C10_Witness ==
    /\ op = "get_result" /\ ret = accumulated_value_
    /\ Len(applied) = 2 /\ accumulated_value_ >= 30

\* C11: variant_visitor::visit of an element whose type has no entry in
\* visitors_ throws "No visitor registered for this type" and calls no
\* visitor function; register_visitor_for_type<T>(f) and register_visitor(f)
\* leave f registered for T (for every type), and visit of an element whose
\* type has an entry throws nothing and calls the function registered for
\* it, once, with that element.
C11_VisitNeedsRegisteredVisitor ==
    /\ [](op = "register_visitor_for_type" =>
            /\ arg[1] \in DOMAIN visitors_
            /\ visitors_[arg[1]].func = arg[2])
    /\ [](op = "register_visitor" =>
            \A T \in ElementTypes :
                T \in DOMAIN visitors_ /\ visitors_[T].func = arg[1])
    /\ [][op' = "visit" =>
            IF arg'[1] \in DOMAIN visitors_
            THEN /\ err' = ""
                 /\ vv_calls' = Append(vv_calls, <<visitors_[arg'[1]].func, arg'[1]>>)
            ELSE /\ err' = "No visitor registered for this type"
                 /\ vv_calls' = vv_calls]_vars

\* A visit has called the visitor function registered for its type, and a
\* later visit of an element of a type without one has failed.
C11_Witness ==
    /\ op = "visit" /\ err = "No visitor registered for this type"
    /\ vv_calls # <<>>
    /\ arg[1] \notin DOMAIN visitors_

\* ------------------------------------------- heap relations (for the claims)
\* What the tree at x holds: kind, name, value and the same of its children,
\* in order.
RECURSIVE TreeValue(_, _)
TreeValue(h, x) ==
    <<h.kind[x], h.name[x], h.value[x],
      [i \in 1..Len(h.children[x]) |-> TreeValue(h, h.children[x][i])]>>

\* The objects of the tree at a.
RECURSIVE Reach(_, _)
Reach(h, a) == {a} \cup UNION {Reach(h, h.children[a][i]) : i \in 1..Len(h.children[a])}

Mutators == {"add", "add_copy", "emplace", "set_name", "value"}
Adders == {"add", "add_copy", "emplace"}

\* C12: clone() of a composite returns a tree with the name, the shape, the
\* child order and the leaf values of the original; the two trees have no
\* object in common, and an add / add_copy / emplace, a set_name or a leaf
\* value assignment made in one of them leaves what the other holds as it was.
C12_CloneIsDeepCopy ==
    /\ [](op = "clone" => TreeValue(Heap, clone_) = TreeValue(Heap, 0))
    /\ [](clone_ # NULL => Reach(Heap, 0) \cap Reach(Heap, clone_) = {})
    /\ [][(clone_ # NULL /\ op' \in Mutators) =>
            /\ arg'[1] \in Reach(Heap, 0) =>
                   TreeValue(Heap', clone_) = TreeValue(Heap, clone_)
            /\ arg'[1] \in Reach(Heap, clone_) =>
                   TreeValue(Heap', 0) = TreeValue(Heap, 0)]_vars

\* A tree with a nested composite was cloned, and a leaf value was then
\* changed in one of the two trees.
C12_Witness ==
    /\ clone_ # NULL
    /\ op = "value"
    /\ \E i \in 1..Len(children[clone_]) : children[children[clone_][i]] # <<>>
    /\ TreeValue(Heap, clone_) # TreeValue(Heap, 0)

\* The add / add_copy / emplace calls made on the composite x, in call order.
CallsOn(x) == SelectSeq(added, LAMBDA e : e[1] = x)

\* C13: each add / add_copy / emplace call on a composite appends one entry,
\* equal to the child passed, at the end of children(); the entries already
\* there keep their position and what they hold; so the children() of the
\* composite the client constructed are the children passed to the calls made
\* on it, in call order, equal ones included, and children().size() is the
\* number of those calls.
C13_AddAppendsInCallOrder ==
    /\ [](/\ Len(children[0]) = Len(CallsOn(0))
          /\ \A i \in 1..Len(children[0]) :
                 kind[children[0][i]] = CallsOn(0)[i][2][1])
    /\ [][op' \in Adders =>
            LET x == arg'[1]
                c == arg'[2]
                n == Len(children[x])
            IN  /\ Len(children'[x]) = n + 1
                /\ SubSeq(children'[x], 1, n) = children[x]
                /\ \A i \in 1..n :
                       TreeValue(Heap', children[x][i]) = TreeValue(Heap, children[x][i])
                /\ TreeValue(Heap', children'[x][n + 1]) = <<c[1], c[3], c[2], <<>>>>]_vars

\* Three calls were made on the composite, two of them with equal children,
\* the last one an emplace.
C13_Witness ==
    /\ op = "emplace" /\ arg[1] = 0
    /\ Len(children[0]) = 3
    /\ TreeValue(Heap, children[0][1]) = TreeValue(Heap, children[0][3])
    /\ TreeValue(Heap, children[0][1]) # TreeValue(Heap, children[0][2])

\* ------------------------------------- registrations (for the claims)
IsPrefix(s, t) == Len(s) <= Len(t) /\ SubSeq(t, 1, Len(s)) = s

\* The connection ids of a list of slots.
Ids(list) == [i \in 1..Len(list) |-> list[i][1]]

\* C14: during a notify_all (an emit) the observers (slots) called so far
\* are the non-null elements of the first part of the snapshot, in its order
\* and once per element, whatever remove_observer (disconnect) calls the
\* callbacks make: a call made during the pass only adds to the end of what
\* was called.  A removed observer (a disconnected id) stays out of
\* observers_ (slots_) until it is added again (for good), and a pass takes
\* its snapshot from observers_ (slots_) as they are when it starts, so the
\* removed registration is in no later pass.
C14_RemovalDuringPass ==
    /\ [](notified = Without(SubSeq(observers_snapshot, 1, snapshot_pos), NULL))
    /\ [](emitted = Ids(SubSeq(slots_snapshot, 1, emit_pos)))
    /\ [][(notification_in_progress_ /\ op' # "notify_all") =>
              IsPrefix(notified, notified')]_vars
    /\ [][(emitting /\ op' # "emit") => IsPrefix(emitted, emitted')]_vars
    /\ [](op = "remove_observer" => arg[1] \notin Range(observers_))
    /\ [](op = "disconnect" => arg[1] \notin Range(Ids(slots_)))
    /\ [][\A o \in PlainObservers :
              (o \notin Range(observers_) /\ ~(op' = "add_observer" /\ arg'[1] = o))
                  => o \notin Range(observers_')]_vars
    /\ [][\A id \in 0..(MaxObservers - 1) :
              (id < next_id_ /\ id \notin Range(Ids(slots_)))
                  => id \notin Range(Ids(slots_'))]_vars
    /\ [][op' = "notify_all" => observers_snapshot' = observers_]_vars
    /\ [][op' = "emit" => slots_snapshot' = slots_]_vars

\* A callback of a notify_all removed an observer that the pass had already
\* notified, while another observer was still to be notified.
C14_Witness ==
    /\ notification_in_progress_
    /\ op = "remove_observer"
    /\ arg[1] \in Range(notified)
    /\ snapshot_pos < Len(observers_snapshot)
    /\ observers_snapshot[snapshot_pos + 1] # NULL

\* C15: the destructor of an auto_observer lets nothing out (it throws
\* nothing), leaves an exception that is passing through its scope in
\* existence, and keeps a failure of its own remove_observer call: the
\* exception remove_observer threw still exists when the destructor has
\* returned, to be raised again later if no other exception is passing.
C15_TeardownFailureDeferred ==
    [][op' = "~auto_observer" =>
          /\ err' = ""
          /\ arg'[3] => "exception passing through" \in exceptions_alive'
          /\ arg'[2] => "exception of remove_observer" \in exceptions_alive']_vars

\* The number of entries of list that hold x.
Count(list, x) == Len(SelectSeq(list, LAMBDA e : e = x))

\* C18: observer_count() returns the number of entries of observers_;
\* add_observer, when it returns, has appended one entry (and has appended
\* none when it throws for a null observer); remove_observer removes every
\* entry that holds its observer, keeps the others in their order, and does
\* nothing when no entry holds it; after clear_observers there is no entry;
\* the constructor of an auto_observer appends one entry for it and its
\* destructor removes it, so the object has an entry only while it is alive
\* and the count after its destruction is the count before its construction
\* unless the client changed the list in between.
C18_ObserverCount ==
    /\ [](op = "observer_count" => ret = Len(observers_))
    /\ [][op' = "add_observer" =>
            IF err' = ""
            THEN /\ Len(observers_') = Len(observers_) + 1
                 /\ observers_' = Append(observers_, arg'[1])
            ELSE /\ arg'[1] = NULL
                 /\ observers_' = observers_]_vars
    /\ [][op' = "remove_observer" =>
            /\ Count(observers_', arg'[1]) = 0
            /\ Len(observers_') = Len(observers_) - Count(observers_, arg'[1])
            /\ Without(observers_', arg'[1]) = Without(observers_, arg'[1])
            /\ Count(observers_, arg'[1]) = 0 => observers_' = observers_]_vars
    /\ [](op = "clear_observers" => Len(observers_) = 0)
    /\ [][op' = "auto_observer" => observers_' = Append(observers_, arg'[1])]_vars
    /\ [][op' = "~auto_observer" =>
            /\ Count(observers_', arg'[1]) = 0
            /\ Count(observers_, arg'[1]) = 1 => Len(observers_') = Len(observers_) - 1
            /\ Without(observers_', arg'[1]) = Without(observers_, arg'[1])]_vars
    /\ [](\A a \in AutoObservers :
              Count(observers_, a) <= (IF a \in alive THEN 1 ELSE 0))

\* An auto_observer was constructed after an observer had been added, and
\* has been destroyed: the entry of the other observer is the one left.
C18_Witness ==
    /\ op = "~auto_observer"
    /\ alive = {}
    /\ Len(observers_) = 1
    /\ observers_[1] \in PlainObservers

\* C16: an execute_command of a command that has can_undo() and whose
\* can_undo() is true makes undo_stack_size() one larger, and an
\* execute_command of any other command leaves it as it was; so from an
\* empty undo stack, with no undo, the size is the number of such commands
\* executed.
C16_UndoableExecutionsCounted ==
    /\ [][op' = "execute_command" =>
            Len(undo_stack_') = Len(undo_stack_)
                + (IF has_can_undo(arg'[1]) /\ can_undo(arg'[1]) THEN 1 ELSE 0)]_vars
    /\ [](op = "undo_stack_size" => ret = Len(undo_stack_))
    /\ [](Len(undo_stack_) + Len(redo_stack_) <= executed)

\* A command without can_undo() or with can_undo() false was executed after
\* two commands with can_undo() true: the size is two.
C16_Witness ==
    /\ op = "execute_command"
    /\ ~(has_can_undo(arg[1]) /\ can_undo(arg[1]))
    /\ Len(undo_stack_) = 2
    /\ executed = 3

\* The command is cmd with the state it saved for undo left aside.
SameCommand(a, b) == a.type = b.type /\ a.args = b.args

\* C20: undo() takes the command on top of the undo stack, the one executed
\* or redone most recently, and puts the receiver back to what the client
\* saw of it before that command was executed or redone (the content of the
\* document; the brightness, colour and on / off of the lightbulb), so as
\* many undo() calls as commands were executed give what it was before the
\* first; the command undone goes on top of the redo stack, and redo()
\* executes the command on top of the redo stack, the one undone last, again
\* and puts it back on the undo stack.
C20_UndoIsLifo ==
    /\ [][(op' = "undo" /\ undo_stack_ # <<>>) =>
            /\ ret' = TRUE
            /\ undo_stack_' = Pop(undo_stack_)
            /\ redo_stack_' = Append(redo_stack_, Top(undo_stack_))
            /\ trail # <<>> => Observable(Receiver') = Top(trail)]_vars
    /\ [][(op' = "redo" /\ redo_stack_ # <<>>) =>
            /\ ret' = TRUE
            /\ redo_stack_' = Pop(redo_stack_)
            /\ Receiver' = execute(Top(redo_stack_), Receiver).r
            /\ Len(undo_stack_') = Len(undo_stack_) + 1
            /\ SameCommand(Top(undo_stack_'), Top(redo_stack_))]_vars
    /\ [](Len(trail) <= Len(undo_stack_))

\* Three commands were executed and three undo() calls have put the
\* receiver back to what it was before the first, which is not what it was
\* in between.
C20_Witness ==
    /\ op = "undo" /\ ret = TRUE
    /\ executed = 3
    /\ Len(redo_stack_) = 3
    /\ Observable(Receiver) = Observable([content |-> <<97>>, clipboard |-> <<>>,
                                          brightness |-> 0, red |-> 0, green |-> 0,
                                          blue |-> 0, is_on |-> FALSE, counter |-> 0])
    /\ \A i \in 1..3 : redo_stack_[i].type \in {"paste_command", "append_text_command", "cut_command"}
    /\ clipboard_ # <<>>

\* C17: a node_counter_visitor whose count is 0, applied to a composite,
\* has afterwards a get_total_count() of at least the number of children of
\* the composite, in every traversal mode.
C17_CounterCountsNodes ==
    [][(op' = "node_counter_visitor::visit" /\ count_ = 0
            /\ kind[arg'[1]] = "composite")
          => count_' >= Len(children[arg'[1]])]_vars

\* C19: build() returns a composite whose children are exactly the
\* configured components, one child per with_component / contains /
\* requires_component / with_component_factory call and in the order of
\* those calls, and it runs every post-build action exactly once, in
\* registration order, only after all the children have been added.
C19_BuildAddsThenRunsActions ==
    /\ [](Len(components_) = Len(configured))
    /\ [][op' = "build"
            => /\ err' = ""
               /\ built'.children = configured
               /\ Len(built'.children) = Len(configured)
               /\ post_build_log'
                      = [i \in 1..Len(registered) |->
                             <<registered[i], Len(configured)>>]]_vars

C19_Witness ==
    /\ op = "build"
    /\ Len(built.children) = MaxComponents
    /\ \E i, j \in 1..Len(built.children) : built.children[i] # built.children[j]
    /\ Len(post_build_log) = MaxActions
    /\ post_build_log[1][1] # post_build_log[2][1]

\* C21: an execute_command of a command that is put on the undo stack
\* empties the redo stack, whatever number of undo() calls preceded it:
\* redo_stack_size() is then 0 and a redo() returns false and executes
\* nothing.
C21_ExecuteEmptiesRedoStack ==
    /\ [][(op' = "execute_command" /\ has_can_undo(arg'[1]) /\ can_undo(arg'[1]))
            => redo_stack_' = <<>>]_vars
    /\ [][(op' = "redo" /\ redo_stack_ = <<>>)
            => ret' = FALSE /\ UNCHANGED <<receiverVars, invokerVars>>]_vars
    /\ [](op = "redo_stack_size" => ret = Len(redo_stack_))

\* The third command a lightbulb's client executed is alone on the undo
\* stack: the two before it were undone, and the redo stack is empty.
C21_Witness ==
    /\ op = "execute_command"
    /\ receiver_ = "lightbulb"
    /\ executed = 3
    /\ Len(undo_stack_) = 1
    /\ redo_stack_ = <<>>

C23_QueueDrainsFifo ==
    /\ [][op' = "queue_command" =>
            /\ Len(command_queue_') = Len(command_queue_) + 1
            /\ UNCHANGED <<receiverVars, invokerVars>>]_vars
    /\ [](drained \o command_queue_ = enqueued)
    /\ [](op = "execute_queued_commands returns" =>
            command_queue_ = <<>> /\ drained = enqueued)
    /\ [](op = "queued_command_count" => ret = Len(command_queue_))

\* execute_queued_commands returned after executing two queued commands and
\* the one the first of them queued.
C23_Witness ==
    /\ op = "execute_queued_commands returns"
    /\ Len(drained) = 3
    /\ queue_command_calls(drained[1]) = <<drained[3]>>
    /\ drained[2] # drained[3]

\* C24: queue_command and execute_queued_commands leave the undo stack and
\* the redo stack as they were, also for commands whose can_undo() is
\* true, so no undo() reverts a queued command.
C24_QueueLeavesHistory ==
    [][op' \in {"queue_command", "execute_queued_commands", "execute",
                "execute_queued_commands returns"}
         => UNCHANGED invokerVars]_vars

\* The queue set the brightness of the lightbulb with a command whose
\* can_undo() is true, and the undo stack is empty.
C24_Witness ==
    /\ op = "execute_queued_commands returns"
    /\ receiver_ = "lightbulb"
    /\ \E i \in 1..Len(drained) :
           /\ drained[i].type = "set_brightness_command"
           /\ can_undo(drained[i])
    /\ brightness_ # 0
    /\ undo_stack_ = <<>>

\* C25: a notify_all (an emit) calls every observer (slot) registered when
\* the pass starts, once per registration and in registration order; what a
\* callback throws is caught, does not reach the caller of notify_all (of
\* emit) and does not keep the pass from the observers after it; an observer
\* added during the pass is not called in that pass.
C25_PassReachesEveryObserver ==
    /\ [](op \in {"notify", "slot"} => err = "")
    /\ [][(notifying /\ ~notifying') =>
              notified' = Without(observers_snapshot, NULL)]_vars
    /\ [][(emitting /\ ~emitting') => emitted' = Ids(slots_snapshot)]_vars
    /\ [][op' = "notify_all" => observers_snapshot' = observers_]_vars
    /\ [][op' = "emit" => slots_snapshot' = slots_]_vars
    /\ [][(notifying /\ notifying') => observers_snapshot' = observers_snapshot]_vars
    /\ [][(emitting /\ emitting') => slots_snapshot' = slots_snapshot]_vars

\* C26: a transition_to(new_state) made in the state old invokes the exit
\* callback of old, then the enter callback of new_state, then the
\* transition callback with (old, new_state), each if it is registered;
\* with no current state it invokes no exit callback and no transition
\* callback; afterwards get_current_state() is new_state, also when
\* new_state is old.
C26_TransitionCallbackOrder ==
    /\ [][op' = "transition_to" =>
            LET old == current_state_
                new_state == arg'[1]
            IN  /\ current_state_' = new_state
                /\ callbacks' =
                       (IF old # NULL /\ old \in exit_callbacks_
                        THEN <<<<"exit", old>>>> ELSE <<>>)
                       \o (IF new_state \in enter_callbacks_
                           THEN <<<<"enter", new_state>>>> ELSE <<>>)
                       \o (IF old # NULL /\ transition_callback_
                           THEN <<<<"transition", old, new_state>>>> ELSE <<>>)]_vars
    /\ [](op = "get_current_state" => ret = current_state_)

\* A transition from a state to itself invoked its exit callback, its enter
\* callback and the transition callback.
C26_Witness ==
    /\ op = "transition_to"
    /\ current_state_ = arg[1]
    /\ callbacks = <<<<"exit", arg[1]>>, <<"enter", arg[1]>>,
                     <<"transition", arg[1], arg[1]>>>>

\* C27: get_state_history() holds one entry per transition_to call, in call
\* order; every entry but the last has a duration, and the last has none
\* exactly when there is a current state, whose id it then has; reset()
\* clears the current state and removes no entry.
C27_HistoryShape ==
    /\ [](Len(state_history_) = Len(transitions))
    /\ [](\A i \in 1..Len(state_history_) :
              /\ state_history_[i].id = transitions[i]
              /\ i < Len(state_history_) => state_history_[i].has_duration)
    /\ [](current_state_ # NULL => state_history_ # <<>>)
    /\ [](state_history_ # <<>> =>
              LET last == state_history_[Len(state_history_)]
              IN  /\ ~last.has_duration <=> current_state_ # NULL
                  /\ current_state_ # NULL => last.id = current_state_)
    /\ [][op' = "reset" =>
              /\ current_state_' = NULL
              /\ Len(state_history_') = Len(state_history_)]_vars

\* reset() was called in the third state entered.
C27_Witness ==
    /\ op = "reset"
    /\ Len(state_history_) = 3
    /\ state_history_[3].has_duration
    /\ state_history_[2].id # state_history_[3].id
    /\ current_state_ = NULL

\* C28: get_visit_count(s) is the number of transition_to(s) calls made so
\* far, the number of entries with id s in get_state_history(), whatever
\* register_state, transition_to and reset calls were made.
C28_VisitCountIsTransitions ==
    /\ [](\A s \in StateIDs :
              At(state_visit_count_, s, 0)
                  = Cardinality({i \in 1..Len(transitions) : transitions[i] = s}))
    /\ [](op = "get_visit_count" =>
              ret = Cardinality({i \in 1..Len(state_history_) :
                                    state_history_[i].id = arg[1]}))

====
